---- MODULE Spec2Model ----
(***************************************************************************)
(* A model of the aws-operator create service:                             *)
(*   - the reusable AWS resources of resources/aws (VPC, Gateway,          *)
(*     HostedZone, ELB, KMSKey) against an abstract provider,              *)
(*   - the hosted-zone helpers of service/create/domains.go,               *)
(*   - the Add and Delete handlers that Service.Boot registers             *)
(*     (service/create/service.go).                                        *)
(* Strings that the code splits or trims are sequences of tokens: the      *)
(* token "." is the dot, every other token is a non-empty dot-free chunk.  *)
(***************************************************************************)
EXTENDS Integers, Sequences, FiniteSets, TLC

VARIABLES
    fnCall,     \* the last call of a pure helper: its argument and what it returned
    vpcs,       \* provider: the VPCs
    gateways,   \* provider: the internet gateways
    zones,      \* provider: the Route53 hosted zones
    nextId,     \* provider: the next id it assigns
    ent,        \* the resource entity (Go struct) the last operation ran on
    calls,      \* the operations run on resource entities, with their results
    apiLog,     \* the provider API calls the last operation issued
    crashed,    \* the process died of a runtime panic
    awsConfig,  \* Service.awsConfig, shared by every handler invocation
    run,        \* the handler invocation in progress, or the last one: its locals
    trace,      \* the stages that invocation attempted, with their outcomes
    runs,       \* the invocations that ended: event type, cluster, outcome
    prov,       \* provider: what the handlers' clients see
    faults,     \* provider calls that have failed so far
    callers,    \* concurrent callers of CreateIfNotExists: where each one stands
    boot,       \* Service.Boot: its callers, bootOnce, the registration, the informer
    iam         \* the identity teardown of a delete event: the account's role, policy
                \* and instance profile, the step it stands at, the calls it issued

fnVars  == <<fnCall>>
resVars == <<vpcs, gateways, zones, nextId, ent, calls, apiLog, crashed>>
svcVars == <<awsConfig, run, trace, runs, prov, faults>>
raceVars == <<callers>>
bootVars == <<boot>>
iamVars == <<iam>>
vars    == <<fnCall, vpcs, gateways, zones, nextId, ent, calls, apiLog, crashed,
             awsConfig, run, trace, runs, prov, faults, callers, boot, iam>>

-----------------------------------------------------------------------------
(* Bounds of the model *)

MaxDomainLen == 7   \* tokens in a domain handed to hostedZoneName
MaxReservations == 2    \* reservations in one DescribeInstances output
MaxPerReservation == 1  \* instances in one reservation
MaxCalls == 2       \* operations run on resource entities
MaxEvents == 2      \* Add and Delete events the informer delivers
MaxFaults == 2      \* provider calls that fail
MaxBootCalls == 4   \* goroutines that call Service.Boot
MaxTeardowns == 2   \* delete events whose identity teardown is followed
MaxSetups == 2      \* create events whose identity setup is followed
MaxLifeEvents == 3  \* events of one cluster's life: created, deleted, created again

-----------------------------------------------------------------------------
(* Values *)

NoId == 0           \* the empty id / arn ("" or a nil *string)
Dot  == "."

Min(S) == CHOOSE x \in S : \A y \in S : x <= y

SeqsUpTo(S, n) == UNION {[1..k -> S] : k \in 0..n}

(* EC2 instance state codes, service.go:55-63 *)
EC2PendingState      == 0
EC2RunningState      == 16
EC2ShuttingDownState == 32
EC2TerminatedState   == 48
EC2StoppingState     == 64
EC2StoppedState      == 80
EC2StateCodes == {EC2PendingState, EC2RunningState, EC2ShuttingDownState,
                  EC2TerminatedState, EC2StoppingState, EC2StoppedState}

-----------------------------------------------------------------------------
(* strings.* of the Go standard library, on token sequences *)

\* strings.Index(s, sep) for a one-token sep, 1-based; 0 when absent
Index(s, sep) ==
    LET hits == {i \in 1..Len(s) : s[i] = sep}
    IN  IF hits = {} THEN 0 ELSE Min(hits)

\* strings.SplitN(s, sep, n) for n > 0: at most n pieces, the last one unsplit
RECURSIVE SplitN(_, _, _)
SplitN(s, sep, n) ==
    LET i == Index(s, sep)
    IN  IF n = 1 \/ i = 0
        THEN <<s>>
        ELSE <<SubSeq(s, 1, i - 1)>> \o SplitN(SubSeq(s, i + 1, Len(s)), sep, n - 1)

\* a TrimRight that strips nothing
TrimRightNone(s, c) == s

\* strings.TrimRight(s, cutset) for a one-token cutset: every trailing c is dropped
RECURSIVE TrimRight(_, _)
TrimRight(s, c) ==
    IF s # <<>> /\ s[Len(s)] = c THEN TrimRight(SubSeq(s, 1, Len(s) - 1), c) ELSE s

-----------------------------------------------------------------------------
(* service/create/service.go: allExistingInstancesMatch *)

\* the instances of a DescribeInstancesOutput, reservation by reservation
RECURSIVE Flatten(_)
Flatten(reservations) ==
    IF reservations = <<>> THEN <<>>
    ELSE Head(reservations) \o Flatten(Tail(reservations))

\* an allExistingInstancesMatch with the comparison inverted
allExistingInstancesMatchEq(reservations, state) ==
    LET all == Flatten(reservations)
        hit == {i \in 1..Len(all) : all[i].code = state}
    IN  IF hit = {} THEN [id |-> NoId, match |-> TRUE]
        ELSE [id |-> all[Min(hit)].id, match |-> FALSE]

\* returns (id of the first instance whose state differs, false), else (nil, true)
allExistingInstancesMatch(reservations, state) ==
    LET all == Flatten(reservations)
        hit == {i \in 1..Len(all) : all[i].code # state}
    IN  IF hit = {} THEN [id |-> NoId, match |-> TRUE]
        ELSE [id |-> all[Min(hit)].id, match |-> FALSE]

-----------------------------------------------------------------------------
(* service/create/domains.go: hostedZoneName *)

\* tmp[i] of a Go slice: an index past the end is a runtime panic
InRange(tmp, i) == i <= Len(tmp)

\* a hostedZoneName that removes the first two labels only
hostedZoneNameTwoLabels(domain) ==
    LET tmp == SplitN(domain, Dot, 3)
    IN  IF Len(tmp) # 3
        THEN [panic |-> TRUE, name |-> <<>>, err |-> "nil"]
        ELSE [panic |-> FALSE, name |-> tmp[3], err |-> "nil"]

\* the domain without its first five labels; the struct literal indexes tmp[0..5]
\* before len(tmp) is looked at
hostedZoneName(domain) ==
    LET tmp == SplitN(domain, Dot, 6)
    IN  IF \E i \in 1..6 : ~InRange(tmp, i)
        THEN [panic |-> TRUE, name |-> <<>>, err |-> "nil"]
        ELSE IF Len(tmp) # 6
        THEN [panic |-> FALSE, name |-> <<>>, err |-> "malformedCloudConfigKey"]
        ELSE [panic |-> FALSE, name |-> tmp[6], err |-> "nil"]

-----------------------------------------------------------------------------
(* The provider, as resources/aws uses it *)

Kinds == {"vpc", "gateway", "hostedZone"}

VpcNames     == {<<"net-a">>, <<"net-b">>}
GatewayNames == {<<"gw-a">>, <<"gw-b">>}
ZoneNames    == {<<"aws", Dot, "giantswarm", Dot, "io">>, <<"io">>}

\* domains of the cluster specification: the one of domains.go:111 and the
\* etcd domain of the example cluster
SvcDomains ==
    {<<"etcd", Dot, "pbmva", Dot, "g8s", Dot, "eu-west-1", Dot, "adidas", Dot,
       "aws", Dot, "giantswarm", Dot, "io">>,
     <<"etcd", Dot, "example", Dot, "aws", Dot, "giantswarm", Dot, "io">>}

\* Route53 stores and returns the proper DNS name, with a trailing dot
FQDN(name) == IF name # <<>> /\ name[Len(name)] = Dot THEN name ELSE Append(name, Dot)

\* DescribeVpcs / DescribeInternetGateways with the filter tag:Name = name
VpcsTagged(name)     == {x \in vpcs : x.name = name}
GatewaysTagged(name) == {x \in gateways : x.name = name}

\* ListHostedZonesByName(DNSName, MaxItems 1): the zone of that name when there is
\* one, else the zone that sorts next, if any
ListHostedZonesByName(name) ==
    LET same == {z \in zones : z.name = FQDN(name)}
    IN  IF same # {} THEN {<<z>> : z \in same}
        ELSE {<<>>} \cup {<<z>> : z \in zones}

\* the position of a failing provider call among the calls of an operation;
\* past the end when none of them fails
FailAt(steps, fail) ==
    LET hits == {i \in 1..Len(steps) : steps[i] = fail}
    IN  IF hits = {} THEN Len(steps) + 1 ELSE Min(hits)

IssuedUpTo(steps, k) == SubSeq(steps, 1, IF k > Len(steps) THEN Len(steps) ELSE k)

-----------------------------------------------------------------------------
(* resources/aws/vpc.go *)

VpcCreateSteps ==
    <<"CreateVpc", "WaitUntilVpcAvailable", "CreateTags", "EnableDnsHostnames", "EnableDnsSupport">>
VpcFails == {"none", "DescribeVpcs", "DeleteVpc"} \cup {VpcCreateSteps[i] : i \in 1..5}

\* a CreateOrFail that tags the network before it waits for it
VPC_CreateOrFailTagFirst(v, fail) ==
    LET steps == <<"CreateVpc", "CreateTags", "WaitUntilVpcAvailable",
                   "EnableDnsHostnames", "EnableDnsSupport">>
        k == FailAt(steps, fail)
        made == [id |-> nextId, name |-> IF k > 2 THEN v.name ELSE <<>>,
                 available |-> k > 3, dnsHostnames |-> k > 4, dnsSupport |-> k > 5]
    IN  [err    |-> IF k > 5 THEN "nil" ELSE "provider",
         v      |-> IF k > 5 THEN [v EXCEPT !.id = nextId] ELSE v,
         vpcs   |-> IF k > 1 THEN vpcs \cup {made} ELSE vpcs,
         nextId |-> IF k > 1 THEN nextId + 1 ELSE nextId,
         api    |-> IssuedUpTo(steps, k)]

\* VPC.CreateOrFail: create, wait, tag, two attribute calls, then v.id is set
VPC_CreateOrFail(v, fail) ==
    LET k == FailAt(VpcCreateSteps, fail)
        made == [id |-> nextId, name |-> IF k > 3 THEN v.name ELSE <<>>,
                 available |-> k > 2, dnsHostnames |-> k > 4, dnsSupport |-> k > 5]
    IN  [err    |-> IF k > 5 THEN "nil" ELSE "provider",
         v      |-> IF k > 5 THEN [v EXCEPT !.id = nextId] ELSE v,
         vpcs   |-> IF k > 1 THEN vpcs \cup {made} ELSE vpcs,
         nextId |-> IF k > 1 THEN nextId + 1 ELSE nextId,
         api    |-> IssuedUpTo(VpcCreateSteps, k)]

\* a checkIfExists that takes every error of the lookup for not-found
VPC_checkIfExistsLenient(v, fail) ==
    IF fail = "DescribeVpcs" THEN [exists |-> FALSE, err |-> "nil"]
    ELSE [exists |-> VpcsTagged(v.name) # {}, err |-> "nil"]

\* VPC.checkIfExists over VPC.findExisting: not-found is (false, nil)
VPC_checkIfExists(v, fail) ==
    IF fail = "DescribeVpcs" THEN [exists |-> FALSE, err |-> "provider"]
    ELSE [exists |-> VpcsTagged(v.name) # {}, err |-> "nil"]

\* VPC.CreateIfNotExists
VPC_CreateIfNotExistsOp(v, fail) ==
    LET c == VPC_checkIfExists(v, fail)
        r == VPC_CreateOrFail(v, fail)
    IN  IF c.err # "nil"
        THEN [created |-> FALSE, err |-> c.err, v |-> v, vpcs |-> vpcs,
              nextId |-> nextId, api |-> <<"DescribeVpcs">>]
        ELSE IF c.exists
        THEN [created |-> FALSE, err |-> "nil", v |-> v, vpcs |-> vpcs,
              nextId |-> nextId, api |-> <<"DescribeVpcs">>]
        ELSE [created |-> r.err = "nil", err |-> r.err, v |-> r.v, vpcs |-> r.vpcs,
              nextId |-> r.nextId, api |-> <<"DescribeVpcs">> \o r.api]

\* VPC.GetID: v.id when set, else the id of Vpcs[0] of a lookup by name
VPC_GetIDs(v, provider) ==
    IF v.id # NoId THEN {v.id}
    ELSE IF {x \in provider : x.name = v.name} = {} THEN {NoId}
    ELSE {x.id : x \in {y \in provider : y.name = v.name}}

Record(op, e, created, err, id) ==
    Append(calls, [op |-> op, kind |-> e.kind, name |-> e.name,
                   created |-> created, err |-> err, id |-> id])

VPC_CreateIfNotExists ==
    /\ ~crashed /\ Len(calls) < MaxCalls
    /\ \E name \in VpcNames, fail \in VpcFails \ {"DeleteVpc"} :
        LET r == VPC_CreateIfNotExistsOp([kind |-> "vpc", name |-> name, id |-> NoId], fail)
        IN  /\ vpcs' = r.vpcs
            /\ nextId' = r.nextId
            /\ ent' = r.v
            /\ apiLog' = r.api
            /\ \E id \in VPC_GetIDs(r.v, r.vpcs) :
                 calls' = Record("CreateIfNotExists", r.v, r.created, r.err, id)
    /\ UNCHANGED <<gateways, zones, crashed, fnCall, svcVars, raceVars, bootVars, iamVars>>

\* VPC.Delete: the lookup by name, then DeleteVpc of Vpcs[0]
VPC_Delete ==
    /\ ~crashed /\ Len(calls) < MaxCalls
    /\ \E name \in VpcNames, fail \in {"none", "DescribeVpcs", "DeleteVpc"} :
        LET v == [kind |-> "vpc", name |-> name, id |-> NoId]
        IN  /\ ent' = v
            /\ nextId' = nextId
            /\ IF fail = "DescribeVpcs"
               THEN /\ vpcs' = vpcs /\ apiLog' = <<"DescribeVpcs">>
                    /\ calls' = Record("Delete", v, FALSE, "provider", NoId)
               ELSE IF VpcsTagged(name) = {}
               THEN /\ vpcs' = vpcs /\ apiLog' = <<"DescribeVpcs">>
                    /\ calls' = Record("Delete", v, FALSE, "notFound", NoId)
               ELSE \E x \in VpcsTagged(name) :
                    /\ apiLog' = <<"DescribeVpcs", "DeleteVpc">>
                    /\ IF fail = "DeleteVpc"
                       THEN vpcs' = vpcs /\ calls' = Record("Delete", v, FALSE, "provider", x.id)
                       ELSE vpcs' = vpcs \ {x} /\ calls' = Record("Delete", v, FALSE, "nil", x.id)
    /\ UNCHANGED <<gateways, zones, crashed, fnCall, svcVars, raceVars, bootVars, iamVars>>

-----------------------------------------------------------------------------
(* resources/aws/gateway.go *)

GatewayCreateSteps == <<"CreateInternetGateway", "AttachInternetGateway", "CreateTags">>
GatewayFails ==
    {"none", "DescribeInternetGateways", "DeleteInternetGateway"}
        \cup {GatewayCreateSteps[i] : i \in 1..3}

\* Gateway.CreateOrFail: create, attach to g.VPCID, tag, then g.id is set
Gateway_CreateOrFail(g, fail) ==
    LET k == FailAt(GatewayCreateSteps, fail)
        made == [id |-> nextId, name |-> IF k > 3 THEN g.name ELSE <<>>,
                 attached |-> k > 2]
    IN  [err      |-> IF k > 3 THEN "nil" ELSE "provider",
         g        |-> IF k > 3 THEN [g EXCEPT !.id = nextId] ELSE g,
         gateways |-> IF k > 1 THEN gateways \cup {made} ELSE gateways,
         nextId   |-> IF k > 1 THEN nextId + 1 ELSE nextId,
         api      |-> IssuedUpTo(GatewayCreateSteps, k)]

\* Gateway.checkIfExists: gatewayFindError is (false, nil); a found gateway sets g.id
Gateway_checkIfExists(g, fail, first) ==
    IF fail = "DescribeInternetGateways" THEN [exists |-> FALSE, err |-> "provider", g |-> g]
    ELSE IF first = NoId THEN [exists |-> FALSE, err |-> "nil", g |-> g]
    ELSE [exists |-> TRUE, err |-> "nil", g |-> [g EXCEPT !.id = first]]

\* Gateway.CreateIfNotExists
Gateway_CreateIfNotExistsOp(g, fail, first) ==
    LET c == Gateway_checkIfExists(g, fail, first)
        r == Gateway_CreateOrFail(g, fail)
    IN  IF c.err # "nil" \/ c.exists
        THEN [created |-> FALSE, err |-> c.err, g |-> c.g, gateways |-> gateways,
              nextId |-> nextId, api |-> <<"DescribeInternetGateways">>]
        ELSE [created |-> r.err = "nil", err |-> r.err, g |-> r.g, gateways |-> r.gateways,
              nextId |-> r.nextId, api |-> <<"DescribeInternetGateways">> \o r.api]

\* InternetGateways[0] of the lookup by name: any of the tagged ones, NoId when none
FirstGateway(name) ==
    IF GatewaysTagged(name) = {} THEN {NoId} ELSE {x.id : x \in GatewaysTagged(name)}

Gateway_CreateIfNotExists ==
    /\ ~crashed /\ Len(calls) < MaxCalls
    /\ \E name \in GatewayNames, fail \in GatewayFails \ {"DeleteInternetGateway"} :
        \E first \in FirstGateway(name) :
        LET r == Gateway_CreateIfNotExistsOp(
                    [kind |-> "gateway", name |-> name, id |-> NoId], fail, first)
        IN  /\ gateways' = r.gateways
            /\ nextId' = r.nextId
            /\ ent' = r.g
            /\ apiLog' = r.api
            /\ calls' = Record("CreateIfNotExists", r.g, r.created, r.err, r.g.id)
    /\ UNCHANGED <<vpcs, zones, crashed, fnCall, svcVars, raceVars, bootVars, iamVars>>

\* Gateway.Delete
Gateway_Delete ==
    /\ ~crashed /\ Len(calls) < MaxCalls
    /\ \E name \in GatewayNames,
          fail \in {"none", "DescribeInternetGateways", "DeleteInternetGateway"} :
        \E first \in FirstGateway(name) :
        LET g == [kind |-> "gateway", name |-> name, id |-> NoId]
        IN  /\ ent' = g
            /\ nextId' = nextId
            /\ IF fail = "DescribeInternetGateways"
               THEN /\ gateways' = gateways /\ apiLog' = <<"DescribeInternetGateways">>
                    /\ calls' = Record("Delete", g, FALSE, "provider", NoId)
               ELSE IF first = NoId
               THEN /\ gateways' = gateways /\ apiLog' = <<"DescribeInternetGateways">>
                    /\ calls' = Record("Delete", g, FALSE, "notFound", NoId)
               ELSE /\ apiLog' = <<"DescribeInternetGateways", "DeleteInternetGateway">>
                    /\ IF fail = "DeleteInternetGateway"
                       THEN /\ gateways' = gateways
                            /\ calls' = Record("Delete", g, FALSE, "provider", first)
                       ELSE /\ gateways' = {x \in gateways : x.id # first}
                            /\ calls' = Record("Delete", g, FALSE, "nil", first)
    /\ UNCHANGED <<vpcs, zones, crashed, fnCall, svcVars, raceVars, bootVars, iamVars>>

-----------------------------------------------------------------------------
(* resources/aws/hosted_zone.go *)

ZoneFails == {"none", "ListHostedZonesByName", "CreateHostedZone", "DeleteHostedZone"}

\* a findExisting that takes the first zone returned, whatever its name
HostedZone_findExistingFirst(hz, fail, resp) ==
    IF fail = "ListHostedZonesByName" THEN [err |-> "provider", id |-> NoId]
    ELSE IF Len(resp) = 0 THEN [err |-> "notFound", id |-> NoId]
    ELSE [err |-> "nil", id |-> resp[1].id]

\* HostedZone.findExisting on the provider's response: no zone, or a first zone whose
\* name without its trailing dots differs from hz.Name, is not-found
HostedZone_findExisting(hz, fail, resp) ==
    IF fail = "ListHostedZonesByName" THEN [err |-> "provider", id |-> NoId]
    ELSE IF Len(resp) = 0 THEN [err |-> "notFound", id |-> NoId]
    ELSE IF TrimRight(resp[1].name, Dot) # hz.name THEN [err |-> "notFound", id |-> NoId]
    ELSE [err |-> "nil", id |-> resp[1].id]

\* HostedZone.checkIfExists: not-found is (false, nil); a found zone sets hz.id
HostedZone_checkIfExists(hz, fail, resp) ==
    LET f == HostedZone_findExisting(hz, fail, resp)
    IN  IF f.err = "notFound" THEN [exists |-> FALSE, err |-> "nil", hz |-> hz]
        ELSE IF f.err # "nil" THEN [exists |-> FALSE, err |-> f.err, hz |-> hz]
        ELSE [exists |-> TRUE, err |-> "nil", hz |-> [hz EXCEPT !.id = f.id]]

\* HostedZone.CreateOrFail: one CreateHostedZone with a fresh caller reference
HostedZone_CreateOrFail(hz, fail) ==
    IF fail = "CreateHostedZone"
    THEN [err |-> "provider", hz |-> hz, zones |-> zones, nextId |-> nextId]
    ELSE [err |-> "nil", hz |-> [hz EXCEPT !.id = nextId],
          zones |-> zones \cup {[id |-> nextId, name |-> FQDN(hz.name)]},
          nextId |-> nextId + 1]

\* HostedZone.CreateIfNotExists
HostedZone_CreateIfNotExistsOp(hz, fail, resp) ==
    LET c == HostedZone_checkIfExists(hz, fail, resp)
        r == HostedZone_CreateOrFail(hz, fail)
    IN  IF c.err # "nil" \/ c.exists
        THEN [created |-> FALSE, err |-> c.err, hz |-> c.hz, zones |-> zones,
              nextId |-> nextId, api |-> <<"ListHostedZonesByName">>]
        ELSE [created |-> r.err = "nil", err |-> r.err, hz |-> r.hz, zones |-> r.zones,
              nextId |-> r.nextId, api |-> <<"ListHostedZonesByName", "CreateHostedZone">>]

NewZone(name) == [kind |-> "hostedZone", name |-> name, id |-> NoId]

HostedZone_CreateIfNotExists ==
    /\ ~crashed /\ Len(calls) < MaxCalls
    /\ \E name \in ZoneNames, fail \in ZoneFails \ {"DeleteHostedZone"} :
       \E resp \in ListHostedZonesByName(name) :
        LET r == HostedZone_CreateIfNotExistsOp(NewZone(name), fail, resp)
        IN  /\ zones' = r.zones
            /\ nextId' = r.nextId
            /\ ent' = r.hz
            /\ apiLog' = r.api
            /\ calls' = Record("CreateIfNotExists", r.hz, r.created, r.err, r.hz.id)
    /\ UNCHANGED <<vpcs, gateways, crashed, fnCall, svcVars, raceVars, bootVars, iamVars>>

\* NewHostedZoneFromExisting: a HostedZone of that name with the id findExisting
\* resolved, or the error of the lookup
NewHostedZoneFromExisting ==
    /\ ~crashed /\ Len(calls) < MaxCalls
    /\ \E name \in ZoneNames, fail \in {"none", "ListHostedZonesByName"} :
       \E resp \in ListHostedZonesByName(name) :
        LET f == HostedZone_findExisting(NewZone(name), fail, resp)
        IN  /\ ent' = IF f.err = "nil" THEN [NewZone(name) EXCEPT !.id = f.id]
                      ELSE [kind |-> "none"]
            /\ apiLog' = <<"ListHostedZonesByName">>
            /\ calls' = Append(calls, [op |-> "NewHostedZoneFromExisting",
                                       kind |-> "hostedZone", name |-> name,
                                       created |-> FALSE, err |-> f.err, id |-> f.id,
                                       resp |-> resp])
    /\ UNCHANGED <<zones, nextId, vpcs, gateways, crashed, fnCall, svcVars, raceVars, bootVars, iamVars>>

\* HostedZone.Delete: the lookup by name, then DeleteHostedZone of the zone found
HostedZone_Delete ==
    /\ ~crashed /\ Len(calls) < MaxCalls
    /\ \E name \in ZoneNames, fail \in ZoneFails \ {"CreateHostedZone"} :
       \E resp \in ListHostedZonesByName(name) :
        LET hz == NewZone(name)
            f  == HostedZone_findExisting(hz, fail, resp)
        IN  /\ ent' = hz
            /\ nextId' = nextId
            /\ IF f.err # "nil"
               THEN /\ zones' = zones /\ apiLog' = <<"ListHostedZonesByName">>
                    /\ calls' = Record("Delete", hz, FALSE, f.err, NoId)
               ELSE /\ apiLog' = <<"ListHostedZonesByName", "DeleteHostedZone">>
                    /\ IF fail = "DeleteHostedZone"
                       THEN /\ zones' = zones
                            /\ calls' = Record("Delete", hz, FALSE, "provider", f.id)
                       ELSE /\ zones' = {z \in zones : z.id # f.id}
                            /\ calls' = Record("Delete", hz, FALSE, "nil", f.id)
    /\ UNCHANGED <<vpcs, gateways, crashed, fnCall, svcVars, raceVars, bootVars, iamVars>>

-----------------------------------------------------------------------------
(* service/create/domains.go: createHostedZone, deleteRecordSet *)

\* what a service helper leaves when hostedZoneName did not return a name
NoName(op, domain, z) ==
    /\ crashed' = z.panic
    /\ ent' = [kind |-> "none"]
    /\ apiLog' = <<>>
    /\ calls' = Append(calls, [op |-> op, kind |-> "service", name |-> domain,
                               domain |-> domain, created |-> FALSE,
                               err |-> IF z.panic THEN "panic" ELSE z.err, id |-> NoId])
    /\ UNCHANGED <<zones, nextId>>

\* Service.createHostedZone
createHostedZone ==
    /\ ~crashed /\ Len(calls) < MaxCalls
    /\ \E domain \in SvcDomains, fail \in ZoneFails \ {"DeleteHostedZone"} :
        LET z == hostedZoneName(domain)
        IN  IF z.panic \/ z.err # "nil"
            THEN NoName("createHostedZone", domain, z)
            ELSE \E resp \in ListHostedZonesByName(z.name) :
                 LET r == HostedZone_CreateIfNotExistsOp(NewZone(z.name), fail, resp)
                 IN  /\ zones' = r.zones
                     /\ nextId' = r.nextId
                     /\ ent' = r.hz
                     /\ apiLog' = r.api
                     /\ crashed' = FALSE
                     /\ calls' = Append(calls,
                            [op |-> "createHostedZone", kind |-> "hostedZone",
                             name |-> z.name, domain |-> domain,
                             created |-> r.created, err |-> r.err, id |-> r.hz.id])
    /\ UNCHANGED <<vpcs, gateways, fnCall, svcVars, raceVars, bootVars, iamVars>>

\* Service.createRecordSet: RecordSet.CreateOrFail under the HostedZoneID of its
\* input, here the id of the zone createHostedZone has just returned
createRecordSet ==
    /\ ~crashed /\ Len(calls) < MaxCalls
    /\ Len(calls) > 0
    /\ calls[Len(calls)].op = "createHostedZone" /\ calls[Len(calls)].err = "nil"
    /\ ent.kind = "hostedZone"
    /\ \E fail \in {"none", "ChangeResourceRecordSets"} :
        /\ apiLog' = <<"ChangeResourceRecordSets">>
        /\ calls' = Append(calls,
               [op |-> "createRecordSet", kind |-> "hostedZone", name |-> ent.name,
                domain |-> calls[Len(calls)].domain, created |-> FALSE,
                err |-> IF fail = "none" THEN "nil" ELSE "provider", id |-> ent.id])
    /\ UNCHANGED <<vpcs, gateways, zones, nextId, ent, crashed, fnCall, svcVars, raceVars,
                   bootVars, iamVars>>

\* Service.deleteRecordSet: the zone is only looked up (NewHostedZoneFromExisting),
\* then RecordSet.Delete changes the record sets of that zone
deleteRecordSet ==
    /\ ~crashed /\ Len(calls) < MaxCalls
    /\ \E domain \in SvcDomains,
          fail \in {"none", "ListHostedZonesByName", "ChangeResourceRecordSets"} :
        LET z == hostedZoneName(domain)
        IN  IF z.panic \/ z.err # "nil"
            THEN NoName("deleteRecordSet", domain, z)
            ELSE \E resp \in ListHostedZonesByName(z.name) :
                 LET f == HostedZone_findExisting(NewZone(z.name), fail, resp)
                 IN  /\ UNCHANGED <<zones, nextId>>
                     /\ crashed' = FALSE
                     /\ ent' = [NewZone(z.name) EXCEPT !.id = f.id]
                     /\ apiLog' = IF f.err # "nil" THEN <<"ListHostedZonesByName">>
                                  ELSE <<"ListHostedZonesByName", "ChangeResourceRecordSets">>
                     /\ calls' = Append(calls,
                            [op |-> "deleteRecordSet", kind |-> "hostedZone",
                             name |-> z.name, domain |-> domain, created |-> FALSE,
                             err |-> IF f.err # "nil" THEN f.err
                                     ELSE IF fail = "ChangeResourceRecordSets" THEN "provider"
                                     ELSE "nil",
                             id |-> f.id])
    /\ UNCHANGED <<vpcs, gateways, fnCall, svcVars, raceVars, bootVars, iamVars>>

-----------------------------------------------------------------------------
(* service/create/service.go: what the Add and Delete handlers work on *)

Roles == {"master", "worker"}

Clusters == {"c1", "c2", "c3"}

\* awstpr.CustomObject: the region and the machines of the 'spec' and 'aws' sections
ClusterSpec(c) ==
    IF c = "c1"
    THEN [region |-> "eu-central-1", masters |-> 1, awsMasters |-> 1,
          workers |-> 1, awsWorkers |-> 1]
    ELSE IF c = "c2"
    THEN [region |-> "eu-west-1", masters |-> 2, awsMasters |-> 2,
          workers |-> 1, awsWorkers |-> 2]
    ELSE [region |-> "eu-west-1", masters |-> 0, awsMasters |-> 0,
          workers |-> 1, awsWorkers |-> 1]

NoRegion == "none"

\* instanceName: "%s-%s-%d"
instanceName(clusterName, prefix, no) == <<clusterName, prefix, no>>

\* clusterPrefix: "%s-%s"
clusterPrefix(clusterName, prefix) == <<clusterName, prefix>>

\* Service.bucketObjectName
bucketObjectName(cluster, prefix) == <<cluster, prefix>>

NoRun ==
    [type |-> "none", cluster |-> "none", pc |-> "idle", outcome |-> "none",
     region |-> NoRegion, kmsKeyErr |-> FALSE, policyErr |-> FALSE, kmsArn |-> NoId,
     anyMastersCreated |-> FALSE, anyWorkersCreated |-> FALSE, masterIDs |-> <<>>,
     made |-> {}, fault |-> FALSE, attempts |-> 0]

NoProvider ==
    [namespaces |-> {}, keyPairs |-> {}, kmsKeys |-> {}, aliases |-> {},
     policies |-> {}, buckets |-> {}, objects |-> {}, instances |-> {},
     elbs |-> {}, registered |-> {}, next |-> 1, target |-> {}, pending |-> {}]

IdleSvc ==
    /\ awsConfig = [region |-> NoRegion]
    /\ run = NoRun
    /\ trace = <<>>
    /\ runs = <<>>
    /\ prov = NoProvider
    /\ faults = 0

\* a set of instances as DescribeInstances returns it: one reservation each, by id
RECURSIVE AsReservations(_)
AsReservations(S) ==
    IF S = {} THEN <<>>
    ELSE LET x == CHOOSE y \in S : \A z \in S : y.id <= z.id
         IN  <<<<[id |-> x.id, code |-> x.state]>>>> \o AsReservations(S \ {x})

\* DescribeInstances filtered by tag:Name and tag:Cluster
DescribeInstances(p, name, cluster) ==
    AsReservations({x \in p.instances : x.name = name /\ x.cluster = cluster})

\* KMSKey.fullAlias: "alias/%s"
fullAlias(kk) == <<"alias/", kk.name>>

KMSFails == {"none", "CreateKey", "CreateAlias"}

\* a CreateOrFail that keeps the ARN as soon as the key exists
KMSKey_CreateOrFailArnFirst(kk, fail, p) ==
    IF fail = "CreateKey"
    THEN [err |-> "provider", kk |-> kk, p |-> p, key |-> NoId]
    ELSE LET key == p.next
             p1  == [p EXCEPT !.kmsKeys = @ \cup {key}, !.next = @ + 1]
             kk1 == [kk EXCEPT !.arn = key]
         IN  IF fail = "CreateAlias"
             THEN [err |-> "provider", kk |-> kk1, p |-> p1, key |-> key]
             ELSE IF fullAlias(kk) \in p.aliases
             THEN [err |-> "alreadyExists", kk |-> kk1, p |-> p1, key |-> key]
             ELSE [err |-> "nil", kk |-> kk1,
                   p |-> [p1 EXCEPT !.aliases = @ \cup {fullAlias(kk)},
                                    !.target = @ \cup {[alias |-> fullAlias(kk),
                                                        key |-> key]}],
                   key |-> key]

\* KMSKey.CreateOrFail: a key, then an alias on it; the ARN is kept only when
\* both calls returned. The provider refuses an alias name that is taken.
KMSKey_CreateOrFail(kk, fail, p) ==
    IF fail = "CreateKey"
    THEN [err |-> "provider", kk |-> kk, p |-> p, key |-> NoId]
    ELSE LET key == p.next
             p1  == [p EXCEPT !.kmsKeys = @ \cup {key}, !.next = @ + 1]
         IN  IF fail = "CreateAlias"
             THEN [err |-> "provider", kk |-> kk, p |-> p1, key |-> key]
             ELSE IF fullAlias(kk) \in p.aliases
             THEN [err |-> "alreadyExists", kk |-> kk, p |-> p1, key |-> key]
             ELSE [err |-> "nil", kk |-> [kk EXCEPT !.arn = key],
                   p |-> [p1 EXCEPT !.aliases = @ \cup {fullAlias(kk)},
                                    !.target = @ \cup {[alias |-> fullAlias(kk),
                                                        key |-> key]}],
                   key |-> key]

\* the pending window of a scheduled key deletion, in days
keyPendingWindowInDays == 7

KMSDeleteFails == {"none", "DescribeKey", "DeleteAlias", "ScheduleKeyDeletion"}

\* the key DescribeKey resolves the alias to
AliasedKey(kk, p) == {t.key : t \in {u \in p.target : u.alias = fullAlias(kk)}}

\* a Delete that schedules the deletion before it removes the alias
KMSKey_DeleteScheduleFirst(kk, fail, p) ==
    IF fail = "DescribeKey" \/ AliasedKey(kk, p) = {}
    THEN [err |-> IF fail = "DescribeKey" THEN "provider" ELSE "notFound", p |-> p,
          api |-> <<"DescribeKey">>]
    ELSE LET key == CHOOSE k \in AliasedKey(kk, p) : TRUE
             p1  == [p EXCEPT !.pending = @ \cup {[key |-> key,
                                                   days |-> keyPendingWindowInDays]}]
         IN  IF fail = "ScheduleKeyDeletion"
             THEN [err |-> "provider", p |-> p, api |-> <<"DescribeKey", "ScheduleKeyDeletion">>]
             ELSE IF fail = "DeleteAlias"
             THEN [err |-> "provider", p |-> p1,
                   api |-> <<"DescribeKey", "ScheduleKeyDeletion", "DeleteAlias">>]
             ELSE [err |-> "nil",
                   p |-> [p1 EXCEPT !.aliases = @ \ {fullAlias(kk)},
                                    !.target = {u \in @ : u.alias # fullAlias(kk)}],
                   api |-> <<"DescribeKey", "ScheduleKeyDeletion", "DeleteAlias">>]

\* KMSKey.Delete: DescribeKey on the alias, DeleteAlias, then ScheduleKeyDeletion
\* of the key with the pending window; each error is returned at once
KMSKey_Delete(kk, fail, p) ==
    IF fail = "DescribeKey" \/ AliasedKey(kk, p) = {}
    THEN [err |-> IF fail = "DescribeKey" THEN "provider" ELSE "notFound", p |-> p,
          api |-> <<"DescribeKey">>]
    ELSE LET key == CHOOSE k \in AliasedKey(kk, p) : TRUE
             p1  == [p EXCEPT !.aliases = @ \ {fullAlias(kk)},
                              !.target = {u \in @ : u.alias # fullAlias(kk)}]
         IN  IF fail = "DeleteAlias"
             THEN [err |-> "provider", p |-> p, api |-> <<"DescribeKey", "DeleteAlias">>]
             ELSE IF fail = "ScheduleKeyDeletion"
             THEN [err |-> "provider", p |-> p1,
                   api |-> <<"DescribeKey", "DeleteAlias", "ScheduleKeyDeletion">>]
             ELSE [err |-> "nil",
                   p |-> [p1 EXCEPT !.pending = @ \cup {[key |-> key,
                                                         days |-> keyPendingWindowInDays]}],
                   api |-> <<"DescribeKey", "DeleteAlias", "ScheduleKeyDeletion">>]

\* a CreateIfNotExists that falls back on CreateOrFail
KMSKey_CreateIfNotExistsCreating(kk, p) ==
    LET r == KMSKey_CreateOrFail(kk, "none", p)
    IN  [created |-> r.err = "nil", err |-> r.err, kk |-> r.kk, p |-> r.p,
         api |-> <<"CreateKey", "CreateAlias">>]

\* KMSKey.CreateIfNotExists: "KMS keys cannot be reused", and nothing else
KMSKey_CreateIfNotExists(kk, p) ==
    [created |-> FALSE, err |-> "notReusable", kk |-> kk, p |-> p, api |-> <<>>]

KMSNames == {"", "c1"}

\* the key entities an operation may run on: a new one, or the one of the last
\* operation with the ARN it holds
KMSKeys ==
    {[kind |-> "kmsKey", name |-> n, arn |-> NoId] : n \in KMSNames}
        \cup (IF ent.kind = "kmsKey" THEN {ent} ELSE {})

KMSRecord(op, kk, r) ==
    Append(calls, [op |-> op, kind |-> "kmsKey", name |-> kk.name, created |-> FALSE,
                   err |-> r.err, id |-> r.kk.arn, before |-> kk.arn])

\* KMSKey.CreateOrFail on a key entity
KMS_CreateOrFail ==
    /\ ~crashed /\ Len(calls) < MaxCalls
    /\ \E kk \in KMSKeys, fail \in KMSFails :
        LET r == KMSKey_CreateOrFail(kk, fail, prov)
        IN  /\ prov' = r.p
            /\ ent' = r.kk
            /\ apiLog' = IF fail = "CreateKey" THEN <<"CreateKey">>
                         ELSE <<"CreateKey", "CreateAlias">>
            /\ calls' = KMSRecord("CreateOrFail", kk, r)
    /\ UNCHANGED <<vpcs, gateways, zones, nextId, crashed, fnVars, awsConfig, run, trace,
                   runs, faults, raceVars, bootVars, iamVars>>

\* KMSKey.Delete on a key entity
KMS_Delete ==
    /\ ~crashed /\ Len(calls) < MaxCalls
    /\ \E kk \in KMSKeys, fail \in KMSDeleteFails :
        LET r == KMSKey_Delete(kk, fail, prov)
        IN  /\ prov' = r.p
            /\ ent' = kk
            /\ apiLog' = r.api
            /\ calls' = KMSRecord("Delete", kk, [err |-> r.err, kk |-> kk])
    /\ UNCHANGED <<vpcs, gateways, zones, nextId, crashed, fnVars, awsConfig, run, trace,
                   runs, faults, raceVars, bootVars, iamVars>>

\* KMSKey.CreateIfNotExists on a key entity
KMS_CreateIfNotExists ==
    /\ ~crashed /\ Len(calls) < MaxCalls
    /\ \E kk \in KMSKeys :
        LET r == KMSKey_CreateIfNotExists(kk, prov)
        IN  /\ prov' = r.p
            /\ ent' = r.kk
            /\ apiLog' = r.api
            /\ calls' = KMSRecord("CreateIfNotExists", kk, r)
    /\ UNCHANGED <<vpcs, gateways, zones, nextId, crashed, fnVars, awsConfig, run, trace,
                   runs, faults, raceVars, bootVars, iamVars>>

ELBFails == {"none", "CreateLoadBalancer"}

\* ELB.CreateOrFail
ELB_CreateOrFail(lb, fail, p) ==
    IF fail = "CreateLoadBalancer" THEN [err |-> "provider", p |-> p]
    ELSE IF lb.name \in p.elbs THEN [err |-> "ELBAlreadyExists", p |-> p]
    ELSE [err |-> "nil", p |-> [p EXCEPT !.elbs = @ \cup {lb.name}]]

\* a CreateIfNotExists that hands every error of CreateOrFail to its caller
ELB_CreateIfNotExistsSurfacing(lb, fail, p) ==
    LET r == ELB_CreateOrFail(lb, fail, p)
    IN  [created |-> r.err = "nil", err |-> r.err, p |-> r.p]

\* ELB.CreateIfNotExists
ELB_CreateIfNotExists(lb, fail, p) ==
    LET r == ELB_CreateOrFail(lb, fail, p)
    IN  IF r.err = "ELBAlreadyExists" THEN [created |-> FALSE, err |-> "nil", p |-> r.p]
        ELSE IF r.err # "nil" THEN [created |-> FALSE, err |-> r.err, p |-> r.p]
        ELSE [created |-> TRUE, err |-> "nil", p |-> r.p]

\* ELB.Delete
ELB_Delete(lb, fail, p) ==
    IF fail THEN [err |-> "provider", p |-> p]
    ELSE [err |-> "nil",
          p |-> [p EXCEPT !.elbs = @ \ {lb.name},
                          !.registered = {g \in @ : g.lb # lb.name}]]

\* the number of RunInstances retries the handler declares
runInstancesRetries == 10

InstanceFails == {"none", "DescribeInstances", "RunInstances", "CreateTags"}

\* Instance.CreateIfNotExists: an instance with both tags that is not terminated
\* is reused; otherwise one is launched and then tagged
Instance_CreateIfNotExists(inst, fail, p) ==
    IF fail = "DescribeInstances"
    THEN [created |-> FALSE, id |-> NoId, err |-> "provider", p |-> p, launched |-> NoId,
          attempts |-> 0]
    ELSE LET e == allExistingInstancesMatch(
                      DescribeInstances(p, inst.name, inst.cluster), EC2TerminatedState)
         IN  IF ~e.match
             THEN [created |-> FALSE, id |-> e.id, err |-> "nil", p |-> p, launched |-> NoId,
                   attempts |-> 0]
             ELSE IF fail = "RunInstances"
             THEN [created |-> FALSE, id |-> NoId, err |-> "provider", p |-> p,
                   launched |-> NoId, attempts |-> 1]
             ELSE LET id == p.next
                      with(name, cluster) ==
                          [p EXCEPT !.next = @ + 1,
                                    !.instances = @ \cup
                                        {[id |-> id, name |-> name, cluster |-> cluster,
                                          state |-> EC2RunningState]}]
                  IN  IF fail = "CreateTags"
                      THEN [created |-> FALSE, id |-> NoId, err |-> "provider",
                            p |-> with(<<>>, "none"), launched |-> id, attempts |-> 1]
                      ELSE [created |-> TRUE, id |-> id, err |-> "nil",
                            p |-> with(inst.name, inst.cluster), launched |-> id,
                            attempts |-> 1]

\* FindInstances: the instances whose name starts with the pattern
FindInstances(p, pattern) ==
    {x \in p.instances : Len(x.name) >= 2 /\ SubSeq(x.name, 1, 2) = pattern}

\* Instance.Delete: TerminateInstances; the instance shuts down
Instance_Delete(p, id) ==
    [p EXCEPT !.instances =
        {IF x.id = id /\ x.state # EC2TerminatedState
         THEN [x EXCEPT !.state = EC2ShuttingDownState] ELSE x : x \in @}]

MachineFails == {"cloudConfig", "PutObject", "SmallCloudconfig"} \cup InstanceFails

\* a resource this invocation created
Made(kind, role, id) == [kind |-> kind, role |-> role, id |-> id]

\* a runMachine that uploads under the name of the machine
runMachinePerMachine(input, fail, p) ==
    LET none(err, q, made) ==
            [created |-> FALSE, id |-> NoId, err |-> err, p |-> q, made |-> made,
             attempts |-> 0]
        obj == instanceName(input.cluster, input.prefix, input.no)
        p1  == [p EXCEPT !.objects = @ \cup {obj}]
        m1  == IF obj \in p.objects THEN {} ELSE {Made("object", input.prefix, NoId)}
        r   == Instance_CreateIfNotExists(
                   [name |-> instanceName(input.cluster, input.prefix, input.no),
                    cluster |-> input.cluster],
                   IF fail \in InstanceFails THEN fail ELSE "none", p1)
    IN  IF fail = "cloudConfig" THEN none("render", p, {})
        ELSE IF fail = "PutObject" THEN none("provider", p, {})
        ELSE IF fail = "SmallCloudconfig" THEN none("render", p1, m1)
        ELSE [created |-> r.created, id |-> r.id, err |-> r.err, p |-> r.p,
              attempts |-> r.attempts,
              made |-> m1 \cup IF r.launched = NoId THEN {}
                               ELSE {Made("instance", input.prefix, r.launched)}]

\* Service.runMachine: render, upload, small cloudconfig, instance
runMachine(input, fail, p) ==
    LET none(err, q, made) ==
            [created |-> FALSE, id |-> NoId, err |-> err, p |-> q, made |-> made,
             attempts |-> 0]
        obj == bucketObjectName(input.cluster, input.prefix)
        p1  == [p EXCEPT !.objects = @ \cup {obj}]
        m1  == IF obj \in p.objects THEN {} ELSE {Made("object", input.prefix, NoId)}
        r   == Instance_CreateIfNotExists(
                   [name |-> instanceName(input.cluster, input.prefix, input.no),
                    cluster |-> input.cluster],
                   IF fail \in InstanceFails THEN fail ELSE "none", p1)
    IN  IF fail = "cloudConfig" THEN none("render", p, {})
        ELSE IF fail = "PutObject" THEN none("provider", p, {})
        ELSE IF fail = "SmallCloudconfig" THEN none("render", p1, m1)
        ELSE [created |-> r.created, id |-> r.id, err |-> r.err, p |-> r.p,
              attempts |-> r.attempts,
              made |-> m1 \cup IF r.launched = NoId THEN {}
                               ELSE {Made("instance", input.prefix, r.launched)}]

\* the loop of runMachines, from machine i on
RECURSIVE runMachinesFrom(_, _, _, _, _, _)
runMachinesFrom(cluster, prefix, i, n, plan, acc) ==
    IF i >= n THEN acc
    ELSE LET r == runMachine([cluster |-> cluster, prefix |-> prefix, no |-> i],
                             IF plan.at = i THEN plan.fail ELSE "none", acc.p)
         IN  IF r.err # "nil"
             THEN [anyCreated |-> FALSE, ids |-> <<>>, err |-> r.err, p |-> r.p,
                   made |-> acc.made \cup r.made, attempts |-> r.attempts]
             ELSE runMachinesFrom(cluster, prefix, i + 1, n, plan,
                      [anyCreated |-> acc.anyCreated \/ r.created,
                       ids |-> Append(acc.ids, r.id), err |-> "nil", p |-> r.p,
                       made |-> acc.made \cup r.made, attempts |-> r.attempts])

\* a runMachines that does not compare the two declarations
runMachinesUncompared(cluster, prefix, plan, p) ==
    runMachinesFrom(cluster, prefix, 0,
        IF prefix = "master" THEN ClusterSpec(cluster).masters
        ELSE ClusterSpec(cluster).workers,
        plan,
        [anyCreated |-> FALSE, ids |-> <<>>, err |-> "nil", p |-> p, made |-> {},
         attempts |-> 0])

\* Service.runMachines
runMachines(cluster, prefix, plan, p) ==
    LET s == ClusterSpec(cluster)
        machines    == IF prefix = "master" THEN s.masters ELSE s.workers
        awsMachines == IF prefix = "master" THEN s.awsMasters ELSE s.awsWorkers
    IN  IF machines # awsMachines
        THEN [anyCreated |-> FALSE, ids |-> <<>>, err |-> "mismatch", p |-> p, made |-> {},
              attempts |-> 0]
        ELSE runMachinesFrom(cluster, prefix, 0, machines, plan,
                 [anyCreated |-> FALSE, ids |-> <<>>, err |-> "nil", p |-> p, made |-> {},
                  attempts |-> 0])

\* a validateIDs that accepts the empty list
validateIDsOrNone(ids) == \A i \in 1..Len(ids) : ids[i] # NoId

\* validateIDs
validateIDs(ids) == Len(ids) # 0 /\ \A i \in 1..Len(ids) : ids[i] # NoId

RECURSIVE SortedIds(_)
SortedIds(S) ==
    IF S = {} THEN <<>> ELSE <<Min(S)>> \o SortedIds(S \ {Min(S)})

\* the loop of deleteMachines: the first instance that fails ends it
RECURSIVE deleteEach(_, _, _, _)
deleteEach(ids, i, plan, p) ==
    IF i > Len(ids) THEN [err |-> "nil", p |-> p]
    ELSE IF plan.fail = "TerminateInstances" /\ plan.at = i - 1
    THEN [err |-> "provider", p |-> p]
    ELSE deleteEach(ids, i + 1, plan, Instance_Delete(p, ids[i]))

\* Service.deleteMachines
deleteMachines(cluster, prefix, plan, p) ==
    IF plan.fail = "FindInstances" THEN [err |-> "provider", p |-> p]
    ELSE deleteEach(SortedIds({x.id : x \in FindInstances(p, clusterPrefix(cluster, prefix))}),
                    1, plan, p)

\* a consistency condition that overlooks the policy error
InconsistentNoPolicy(anyMastersCreated, anyWorkersCreated, kmsKeyErr, policyErr) ==
    (anyMastersCreated \/ anyWorkersCreated) /\ kmsKeyErr

\* the consistency condition at the end of the Add handler
Inconsistent(anyMastersCreated, anyWorkersCreated, kmsKeyErr, policyErr) ==
    (anyMastersCreated \/ anyWorkersCreated) /\ (kmsKeyErr \/ policyErr)

-----------------------------------------------------------------------------
(* service/create/service.go: the Add handler *)

\* an order of the Add stages with the load balancer before the masters
AddAfterLBFirst(stage) ==
    CASE stage = "Namespace"        -> "Clients"
      [] stage = "Clients"          -> "KeyPair"
      [] stage = "KeyPair"          -> "Certificates"
      [] stage = "Certificates"     -> "KeyMaterial"
      [] stage = "KeyMaterial"      -> "EncryptedAssets"
      [] stage = "EncryptedAssets"  -> "IdentityPolicy"
      [] stage = "IdentityPolicy"   -> "ObjectStore"
      [] stage = "ObjectStore"      -> "LoadBalancer"
      [] stage = "LoadBalancer"     -> "MasterInstances"
      [] stage = "MasterInstances"  -> "WorkerInstances"
      [] stage = "WorkerInstances"  -> "ConsistencyCheck"
      [] stage = "ConsistencyCheck" -> "Done"

\* the stage the Add handler runs after that one
AddAfter(stage) ==
    CASE stage = "Namespace"        -> "Clients"
      [] stage = "Clients"          -> "KeyPair"
      [] stage = "KeyPair"          -> "Certificates"
      [] stage = "Certificates"     -> "KeyMaterial"
      [] stage = "KeyMaterial"      -> "EncryptedAssets"
      [] stage = "EncryptedAssets"  -> "IdentityPolicy"
      [] stage = "IdentityPolicy"   -> "ObjectStore"
      [] stage = "ObjectStore"      -> "MasterInstances"
      [] stage = "MasterInstances"  -> "LoadBalancer"
      [] stage = "LoadBalancer"     -> "WorkerInstances"
      [] stage = "WorkerInstances"  -> "ConsistencyCheck"
      [] stage = "ConsistencyCheck" -> "Done"

\* an Add handler that also passes over the error of the object store
AddAbortsButObjectStore(stage) ==
    stage \notin {"KeyMaterial", "IdentityPolicy", "ObjectStore"}

\* the stages of the Add handler whose error makes it return at once
AddAborts(stage) == stage \notin {"KeyMaterial", "IdentityPolicy"}

\* an order of the Delete stages with the workers before the masters
DeleteAfterWorkersFirst(stage) ==
    CASE stage = "Namespace"       -> "Clients"
      [] stage = "Clients"         -> "WorkerInstances"
      [] stage = "WorkerInstances" -> "MasterInstances"
      [] stage = "MasterInstances" -> "MasterObject"
      [] stage = "MasterObject"    -> "WorkerObject"
      [] stage = "WorkerObject"    -> "LoadBalancer"
      [] stage = "LoadBalancer"    -> "IdentityPolicy"
      [] stage = "IdentityPolicy"  -> "KeyPair"
      [] stage = "KeyPair"         -> "Done"

\* the stage the Delete handler runs after that one
DeleteAfter(stage) ==
    CASE stage = "Namespace"       -> "Clients"
      [] stage = "Clients"         -> "MasterInstances"
      [] stage = "MasterInstances" -> "WorkerInstances"
      [] stage = "WorkerInstances" -> "MasterObject"
      [] stage = "MasterObject"    -> "WorkerObject"
      [] stage = "WorkerObject"    -> "LoadBalancer"
      [] stage = "LoadBalancer"    -> "IdentityPolicy"
      [] stage = "IdentityPolicy"  -> "KeyPair"
      [] stage = "KeyPair"         -> "Done"

\* the stages of the Delete handler whose error makes it return at once
DeleteAborts(stage) == stage # "Namespace"

\* the provider calls that may still fail
Oks == IF faults < MaxFaults THEN BOOLEAN ELSE {TRUE}

Within(fails) == IF faults < MaxFaults THEN fails ELSE {"none"}

Plans(n, fails) ==
    {[at |-> i, fail |-> f] : i \in 0..(n - 1), f \in Within(fails)}
        \cup {[at |-> 0, fail |-> "none"]}

Err(ok) == IF ok THEN "nil" ELSE "provider"

\* an error that is the provider's or the renderer's failure, not its answer
Faulty(err) == err \in {"provider", "render"}

InStage(type, stage) == run.type = type /\ run.pc = stage

\* a handler that goes back to the workers after it found the cluster inconsistent
EndsRerunning(r, outcome) ==
    /\ run' = [r EXCEPT !.pc = IF outcome = "Inconsistent" THEN "WorkerInstances" ELSE "idle",
                        !.outcome = outcome]
    /\ runs' = Append(runs, [type |-> r.type, cluster |-> r.cluster, outcome |-> outcome])

\* the handler returns
Ends(r, outcome) ==
    /\ run' = [r EXCEPT !.pc = "idle", !.outcome = outcome]
    /\ runs' = Append(runs, [type |-> r.type, cluster |-> r.cluster, outcome |-> outcome])

\* the handler goes on
Goes(r, stage) ==
    /\ run' = [r EXCEPT !.pc = stage]
    /\ UNCHANGED runs

\* a stage returned: the handler returns on its error, or goes on
StageDone(tr, stage, err, ok, r, p) ==
    /\ trace' = Append(tr, [stage |-> stage, ok |-> ok])
    /\ prov' = p
    /\ faults' = IF Faulty(err) THEN faults + 1 ELSE faults
    /\ LET r1 == [r EXCEPT !.fault = @ \/ Faulty(err)]
       IN  IF ~ok /\ (IF r.type = "Add" THEN AddAborts(stage) ELSE DeleteAborts(stage))
           THEN Ends(r1, "Failed")
           ELSE Goes(r1, IF r.type = "Add" THEN AddAfter(stage) ELSE DeleteAfter(stage))
    /\ UNCHANGED <<fnVars, resVars, raceVars, bootVars, iamVars>>

\* a set-like resource created under the cluster's name unless it is there
Keep(r, kind, exists, ok) ==
    IF ok /\ ~exists THEN [r EXCEPT !.made = @ \cup {Made(kind, "none", NoId)}] ELSE r

\* AddFunc: createClusterNamespace
AddEvent(n) ==
    /\ run.pc = "idle" /\ Len(runs) < n
    /\ \E c \in Clusters, ok \in Oks :
        StageDone(<<>>, "Namespace", Err(ok), ok,
                  [NoRun EXCEPT !.type = "Add", !.cluster = c],
                  IF ok THEN [prov EXCEPT !.namespaces = @ \cup {c}] ELSE prov)
    /\ UNCHANGED awsConfig

AddNamespace == AddEvent(MaxEvents)

\* AddFunc: the region of the shared configuration, the clients, the account id
AddClients ==
    /\ InStage("Add", "Clients")
    /\ \E ok \in Oks :
        LET region == ClusterSpec(run.cluster).region
        IN  /\ awsConfig' = [awsConfig EXCEPT !.region = region]
            /\ StageDone(trace, "Clients", Err(ok), ok, [run EXCEPT !.region = region], prov)

\* AddFunc: KeyPair.CreateIfNotExists
AddKeyPair ==
    /\ InStage("Add", "KeyPair")
    /\ \E ok \in Oks :
        StageDone(trace, "KeyPair", Err(ok), ok,
                  Keep(run, "keyPair", run.cluster \in prov.keyPairs, ok),
                  IF ok THEN [prov EXCEPT !.keyPairs = @ \cup {run.cluster}] ELSE prov)
    /\ UNCHANGED awsConfig

\* AddFunc: getCertsFromSecrets
AddCertificates ==
    /\ InStage("Add", "Certificates")
    /\ \E ok \in Oks : StageDone(trace, "Certificates", Err(ok), ok, run, prov)
    /\ UNCHANGED awsConfig

\* AddFunc: KMSKey.CreateOrFail on a key without a name; the error is kept
AddKeyMaterial ==
    /\ InStage("Add", "KeyMaterial")
    /\ \E fail \in Within(KMSFails) :
        LET r == KMSKey_CreateOrFail([name |-> "", arn |-> NoId], fail, prov)
            made == (IF r.key = NoId THEN {} ELSE {Made("kmsKey", "none", r.key)})
                    \cup (IF r.err = "nil" THEN {Made("kmsAlias", "none", r.key)} ELSE {})
        IN  StageDone(trace, "KeyMaterial", r.err, r.err = "nil",
                      [run EXCEPT !.kmsKeyErr = r.err # "nil", !.kmsArn = r.kk.arn,
                                  !.made = @ \cup made],
                      r.p)
    /\ UNCHANGED awsConfig

\* AddFunc: encodeTLSAssets under the key's ARN
AddEncryptedAssets ==
    /\ InStage("Add", "EncryptedAssets")
    /\ \E ok \in Oks : StageDone(trace, "EncryptedAssets", Err(ok), ok, run, prov)
    /\ UNCHANGED awsConfig

\* AddFunc: Policy.CreateOrFail; the error is kept
AddIdentityPolicy ==
    /\ InStage("Add", "IdentityPolicy")
    /\ \E ok \in Oks :
        StageDone(trace, "IdentityPolicy", Err(ok), ok,
                  [Keep(run, "policy", run.cluster \in prov.policies, ok)
                      EXCEPT !.policyErr = ~ok],
                  IF ok THEN [prov EXCEPT !.policies = @ \cup {run.cluster}] ELSE prov)
    /\ UNCHANGED awsConfig

\* AddFunc: Bucket.CreateIfNotExists
AddObjectStore ==
    /\ InStage("Add", "ObjectStore")
    /\ \E ok \in Oks :
        StageDone(trace, "ObjectStore", Err(ok), ok,
                  Keep(run, "bucket", run.cluster \in prov.buckets, ok),
                  IF ok THEN [prov EXCEPT !.buckets = @ \cup {run.cluster}] ELSE prov)
    /\ UNCHANGED awsConfig

\* AddFunc: runMachines for the masters, then validateIDs
AddMasterInstances ==
    /\ InStage("Add", "MasterInstances")
    /\ \E plan \in Plans(ClusterSpec(run.cluster).masters, MachineFails) :
        LET r == runMachines(run.cluster, "master", plan, prov)
        IN  StageDone(trace, "MasterInstances", r.err, validateIDs(r.ids),
                      [run EXCEPT !.anyMastersCreated = r.anyCreated,
                                  !.masterIDs = r.ids, !.made = @ \cup r.made,
                                  !.attempts = r.attempts],
                      r.p)
    /\ UNCHANGED awsConfig

\* AddFunc: ELB.CreateIfNotExists
AddLoadBalancer ==
    /\ InStage("Add", "LoadBalancer")
    /\ \E fail \in Within(ELBFails) :
        LET r == ELB_CreateIfNotExists([name |-> run.cluster], fail, prov)
        IN  StageDone(trace, "LoadBalancer", r.err, r.err = "nil",
                      IF r.created
                      THEN [run EXCEPT !.made = @ \cup {Made("elb", "none", NoId)}]
                      ELSE run,
                      r.p)
    /\ UNCHANGED awsConfig

\* AddFunc: runMachines for the workers
AddWorkerInstances ==
    /\ InStage("Add", "WorkerInstances")
    /\ \E plan \in Plans(ClusterSpec(run.cluster).workers, MachineFails) :
        LET r == runMachines(run.cluster, "worker", plan, prov)
        IN  StageDone(trace, "WorkerInstances", r.err, r.err = "nil",
                      [run EXCEPT !.anyWorkersCreated = r.anyCreated, !.made = @ \cup r.made,
                                  !.attempts = r.attempts],
                      r.p)
    /\ UNCHANGED awsConfig

\* AddFunc: instances were missing although the key or the policy failed
AddConsistencyCheck ==
    /\ InStage("Add", "ConsistencyCheck")
    /\ LET bad == Inconsistent(run.anyMastersCreated, run.anyWorkersCreated,
                               run.kmsKeyErr, run.policyErr)
       IN  /\ trace' = Append(trace, [stage |-> "ConsistencyCheck", ok |-> ~bad])
           /\ IF bad THEN Ends(run, "Inconsistent") ELSE Goes(run, AddAfter("ConsistencyCheck"))
    /\ UNCHANGED <<awsConfig, prov, faults, fnVars, resVars, raceVars, bootVars, iamVars>>

\* AddFunc: "cluster processed"
AddDone ==
    /\ InStage("Add", "Done")
    /\ trace' = Append(trace, [stage |-> "Done", ok |-> TRUE])
    /\ Ends(run, "Success")
    /\ UNCHANGED <<awsConfig, prov, faults, fnVars, resVars, raceVars, bootVars, iamVars>>

-----------------------------------------------------------------------------
(* service/create/service.go: the Delete handler *)

\* DeleteFunc: deleteClusterNamespace; its error is only logged
DeleteEvent(n) ==
    /\ run.pc = "idle" /\ Len(runs) < n
    /\ \E c \in Clusters, ok \in Oks :
        StageDone(<<>>, "Namespace", Err(ok), ok,
                  [NoRun EXCEPT !.type = "Delete", !.cluster = c],
                  IF ok THEN [prov EXCEPT !.namespaces = @ \ {c}] ELSE prov)
    /\ UNCHANGED awsConfig

DeleteNamespace == DeleteEvent(MaxEvents)

\* DeleteFunc: clients from the shared configuration as it stands, the account id
DeleteClients ==
    /\ InStage("Delete", "Clients")
    /\ \E ok \in Oks :
        StageDone(trace, "Clients", Err(ok), ok,
                  [run EXCEPT !.region = awsConfig.region], prov)
    /\ UNCHANGED awsConfig

\* the ways deleteMachines may fail on what it finds
DeletePlans(cluster, prefix) ==
    Plans(Cardinality(FindInstances(prov, clusterPrefix(cluster, prefix))),
          {"none", "TerminateInstances"})
    \cup {[at |-> 0, fail |-> f] : f \in Within({"none", "FindInstances"})}

\* DeleteFunc: deleteMachines for the masters
DeleteMasterInstances ==
    /\ InStage("Delete", "MasterInstances")
    /\ \E plan \in DeletePlans(run.cluster, "master") :
        LET r == deleteMachines(run.cluster, "master", plan, prov)
        IN  StageDone(trace, "MasterInstances", r.err, r.err = "nil", run, r.p)
    /\ UNCHANGED awsConfig

\* DeleteFunc: deleteMachines for the workers
DeleteWorkerInstances ==
    /\ InStage("Delete", "WorkerInstances")
    /\ \E plan \in DeletePlans(run.cluster, "worker") :
        LET r == deleteMachines(run.cluster, "worker", plan, prov)
        IN  StageDone(trace, "WorkerInstances", r.err, r.err = "nil", run, r.p)
    /\ UNCHANGED awsConfig

\* DeleteFunc: BucketObject.Delete of the masters' cloudconfig
DeleteMasterObject ==
    /\ InStage("Delete", "MasterObject")
    /\ \E ok \in Oks :
        StageDone(trace, "MasterObject", Err(ok), ok, run,
                  IF ok THEN [prov EXCEPT !.objects =
                                  @ \ {bucketObjectName(run.cluster, "master")}]
                  ELSE prov)
    /\ UNCHANGED awsConfig

\* DeleteFunc: BucketObject.Delete of the workers' cloudconfig
DeleteWorkerObject ==
    /\ InStage("Delete", "WorkerObject")
    /\ \E ok \in Oks :
        StageDone(trace, "WorkerObject", Err(ok), ok, run,
                  IF ok THEN [prov EXCEPT !.objects =
                                  @ \ {bucketObjectName(run.cluster, "worker")}]
                  ELSE prov)
    /\ UNCHANGED awsConfig

\* DeleteFunc: ELB.Delete
DeleteLoadBalancer ==
    /\ InStage("Delete", "LoadBalancer")
    /\ \E ok \in Oks :
        LET r == ELB_Delete([name |-> run.cluster], ~ok, prov)
        IN  StageDone(trace, "LoadBalancer", r.err, r.err = "nil", run, r.p)
    /\ UNCHANGED awsConfig

\* DeleteFunc: Policy.Delete
DeleteIdentityPolicy ==
    /\ InStage("Delete", "IdentityPolicy")
    /\ \E ok \in Oks :
        StageDone(trace, "IdentityPolicy", Err(ok), ok, run,
                  IF ok THEN [prov EXCEPT !.policies = @ \ {run.cluster}] ELSE prov)
    /\ UNCHANGED awsConfig

\* DeleteFunc: KeyPair.Delete
DeleteKeyPair ==
    /\ InStage("Delete", "KeyPair")
    /\ \E ok \in Oks :
        StageDone(trace, "KeyPair", Err(ok), ok, run,
                  IF ok THEN [prov EXCEPT !.keyPairs = @ \ {run.cluster}] ELSE prov)
    /\ UNCHANGED awsConfig

\* DeleteFunc: "cluster deleted"
DeleteDone ==
    /\ InStage("Delete", "Done")
    /\ trace' = Append(trace, [stage |-> "Done", ok |-> TRUE])
    /\ Ends(run, "Deleted")
    /\ UNCHANGED <<awsConfig, prov, faults, fnVars, resVars, raceVars, bootVars, iamVars>>

\* the provider ends the shutdown of an instance, between two events
ProviderTerminates ==
    /\ run.pc = "idle"
    /\ \E x \in prov.instances :
        /\ x.state = EC2ShuttingDownState
        /\ prov' = [prov EXCEPT !.instances =
                        (@ \ {x}) \cup {[x EXCEPT !.state = EC2TerminatedState]}]
    /\ UNCHANGED <<awsConfig, run, trace, runs, faults, fnVars, resVars, raceVars, bootVars, iamVars>>

-----------------------------------------------------------------------------
(* resources/aws: CreateIfNotExists run by two callers at a time, one provider
   call after another *)

Callers == {"a", "b"}

NoCall ==
    [kind |-> "none", name |-> <<>>, pc |-> "idle", created |-> FALSE, err |-> "nil",
     id |-> NoId, vid |-> NoId]

IdleRace == callers = [c \in Callers |-> NoCall]

\* the call returns
Returns(c, created, err, id) ==
    callers' = [callers EXCEPT ![c] = [@ EXCEPT !.pc = "done", !.created = created,
                                                 !.err = err, !.id = id]]

\* a caller enters VPC.CreateIfNotExists or ELB.CreateIfNotExists
RaceStart(c) ==
    /\ callers[c].pc = "idle"
    /\ \/ \E name \in VpcNames :
            callers' = [callers EXCEPT ![c] = [NoCall EXCEPT !.kind = "vpc", !.name = name,
                                                             !.pc = "DescribeVpcs"]]
       \/ \E name \in Clusters :
            callers' = [callers EXCEPT ![c] = [NoCall EXCEPT !.kind = "elb", !.name = name,
                                                             !.pc = "CreateLoadBalancer"]]
    /\ UNCHANGED <<fnVars, resVars, svcVars, bootVars, iamVars>>

\* VPC.CreateIfNotExists: checkIfExists, on the provider as it is at that moment
RaceVpcCheck(c) ==
    /\ callers[c].pc = "DescribeVpcs"
    /\ \E fail \in {"none", "DescribeVpcs"} :
        LET ch == VPC_checkIfExists([kind |-> "vpc", name |-> callers[c].name, id |-> NoId],
                                    fail)
        IN  IF ch.err # "nil" THEN Returns(c, FALSE, ch.err, NoId)
            ELSE IF ch.exists THEN Returns(c, FALSE, "nil", NoId)
            ELSE callers' = [callers EXCEPT ![c].pc = VpcCreateSteps[1]]
    /\ UNCHANGED <<fnVars, resVars, svcVars, bootVars, iamVars>>

\* what one provider call of VPC.CreateOrFail does to the VPC it is about
VPC_CreateStep(step, x, name) ==
    CASE step = "WaitUntilVpcAvailable" -> [x EXCEPT !.available = TRUE]
      [] step = "CreateTags"            -> [x EXCEPT !.name = name]
      [] step = "EnableDnsHostnames"    -> [x EXCEPT !.dnsHostnames = TRUE]
      [] step = "EnableDnsSupport"      -> [x EXCEPT !.dnsSupport = TRUE]

\* VPC.CreateOrFail: its next provider call; the first error ends it, and v.id is
\* set after the last call
RaceVpcStep(c) ==
    /\ \E k \in 1..Len(VpcCreateSteps) :
        /\ callers[c].pc = VpcCreateSteps[k]
        /\ \E ok \in BOOLEAN :
            IF ~ok
            THEN Returns(c, FALSE, "provider", NoId) /\ UNCHANGED <<vpcs, nextId>>
            ELSE /\ IF k = 1
                    THEN /\ vpcs' = vpcs \cup {[id |-> nextId, name |-> <<>>,
                                                 available |-> FALSE, dnsHostnames |-> FALSE,
                                                 dnsSupport |-> FALSE]}
                         /\ nextId' = nextId + 1
                    ELSE /\ vpcs' = {IF x.id = callers[c].vid
                                     THEN VPC_CreateStep(VpcCreateSteps[k], x, callers[c].name)
                                     ELSE x : x \in vpcs}
                         /\ nextId' = nextId
                 /\ LET vid == IF k = 1 THEN nextId ELSE callers[c].vid
                    IN  IF k = Len(VpcCreateSteps)
                        THEN callers' = [callers EXCEPT ![c] =
                                 [@ EXCEPT !.pc = "done", !.created = TRUE, !.id = vid]]
                        ELSE callers' = [callers EXCEPT ![c] =
                                 [@ EXCEPT !.pc = VpcCreateSteps[k + 1], !.vid = vid]]
    /\ UNCHANGED <<fnVars, gateways, zones, ent, calls, apiLog, crashed, svcVars, bootVars, iamVars>>

\* ELB.CreateIfNotExists: one CreateLoadBalancer
RaceElbCreate(c) ==
    /\ callers[c].pc = "CreateLoadBalancer"
    /\ \E fail \in ELBFails :
        LET r == ELB_CreateIfNotExists([name |-> callers[c].name], fail, prov)
        IN  /\ prov' = r.p
            /\ Returns(c, r.created, r.err, NoId)
    /\ UNCHANGED <<fnVars, resVars, awsConfig, run, trace, runs, faults, bootVars, iamVars>>


-----------------------------------------------------------------------------
(* service/create/service.go: Service.Boot under bootOnce *)

BootCallers == 1..MaxBootCalls

NoLock == 0

IdleBoot ==
    boot = [pc |-> [p \in BootCallers |-> "idle"], lock |-> NoLock, done |-> FALSE,
            tprRuns |-> 0, registered |-> FALSE, informers |-> 0, handled |-> 0,
            dead |-> FALSE]

\* a function that starts the watch before the resource type is registered
BootEntryInformer == "informer"

\* the first statement of the function Boot hands to bootOnce.Do
BootEntry == "createTPR"

\* Boot: bootOnce.Do, whose fast path returns when the function has returned before
BootCall(p) ==
    /\ ~boot.dead /\ boot.pc[p] = "idle"
    /\ boot' = [boot EXCEPT !.pc[p] = IF boot.done THEN "returned" ELSE "doSlow"]
    /\ UNCHANGED <<fnVars, resVars, svcVars, raceVars, iamVars>>

\* bootOnce.Do: under the mutex of the Once, the function is run unless done
BootLock(p) ==
    /\ ~boot.dead /\ boot.pc[p] = "doSlow"
    /\ boot.lock = NoLock
    /\ boot' = IF boot.done THEN [boot EXCEPT !.pc[p] = "returned"]
               ELSE [boot EXCEPT !.lock = p, !.pc[p] = BootEntry]
    /\ UNCHANGED <<fnVars, resVars, svcVars, raceVars, iamVars>>

\* Boot: createTPR; its error is a panic that ends the process
BootCreateTPR(p) ==
    /\ ~boot.dead /\ boot.pc[p] = "createTPR"
    /\ \E ok \in BOOLEAN :
        boot' = IF ok
                THEN [boot EXCEPT !.tprRuns = @ + 1, !.registered = TRUE,
                                  !.pc[p] = "informer"]
                ELSE [boot EXCEPT !.tprRuns = @ + 1, !.dead = TRUE, !.pc[p] = "panic"]
    /\ UNCHANGED <<fnVars, resVars, svcVars, raceVars, iamVars>>

\* Boot: cache.NewInformer and clusterInformer.Run(nil), which does not return
BootRunInformer(p) ==
    /\ ~boot.dead /\ boot.pc[p] = "informer"
    /\ boot' = [boot EXCEPT !.informers = @ + 1, !.pc[p] = "watching"]
    /\ UNCHANGED <<fnVars, resVars, svcVars, raceVars, iamVars>>

\* the running informer calls AddFunc or DeleteFunc
InformerDelivers ==
    /\ ~boot.dead /\ boot.handled < MaxEvents
    /\ \E p \in BootCallers : boot.pc[p] = "watching"
    /\ boot' = [boot EXCEPT !.handled = @ + 1]
    /\ UNCHANGED <<fnVars, resVars, svcVars, raceVars, iamVars>>

-----------------------------------------------------------------------------
(* The identity teardown of a delete event: role policy, instance profile, role *)

IdleIam ==
    iam = [pc |-> "idle", role |-> FALSE, policy |-> FALSE, inProfile |-> FALSE,
           profile |-> FALSE, log |-> <<>>, events |-> 0, setups |-> 0, ret |-> "none",
           setupLog |-> <<>>]

\* what the account may hold of the cluster's identity: a policy is on a role, a
\* role is in a profile only when both exist
IdentityStates ==
    {s \in [role : BOOLEAN, policy : BOOLEAN, inProfile : BOOLEAN, profile : BOOLEAN] :
        /\ s.policy => s.role
        /\ s.inProfile => (s.role /\ s.profile)}

\* a teardown that deletes the role first
IdentityAfterRoleFirst(step) ==
    CASE step = "start"                         -> "deleteRole"
      [] step = "deleteRole"                    -> "deletePolicy"
      [] step = "deletePolicy"                  -> "removeRoleFromInstanceProfile"
      [] step = "removeRoleFromInstanceProfile" -> "deleteInstanceProfile"
      [] OTHER                                  -> "done"

\* DeleteFunc: the order of the identity calls; an error is logged and the next
\* call follows
IdentityAfter(step) ==
    CASE step = "start"                         -> "deletePolicy"
      [] step = "deletePolicy"                  -> "removeRoleFromInstanceProfile"
      [] step = "removeRoleFromInstanceProfile" -> "deleteRole"
      [] step = "deleteRole"                    -> "deleteInstanceProfile"
      [] OTHER                                  -> "done"

\* one identity call returned
IdentityCall(step, call, ok, after) ==
    /\ iam.pc = step
    /\ iam' = [(IF ok THEN after ELSE iam) EXCEPT
                   !.pc = IdentityAfter(step),
                   !.log = Append(iam.log, [call |-> call, ok |-> ok])]
    /\ UNCHANGED <<fnVars, resVars, svcVars, raceVars, bootVars>>

\* DeleteFunc got its provider session: the identity teardown begins, for the
\* first delete event on what the account holds, for a later one on what the
\* teardown before it left
IdentityTeardown ==
    /\ iam.pc \in {"idle", "done", "set"} /\ iam.events < MaxTeardowns
    /\ \E s \in IF iam.pc = "idle" THEN IdentityStates
                 ELSE {[role |-> iam.role, policy |-> iam.policy,
                        inProfile |-> iam.inProfile, profile |-> iam.profile]} :
        iam' = [pc |-> IdentityAfter("start"), role |-> s.role, policy |-> s.policy,
                inProfile |-> s.inProfile, profile |-> s.profile, log |-> <<>>,
                events |-> iam.events + 1, setups |-> iam.setups, ret |-> "none",
                setupLog |-> <<>>]
    /\ UNCHANGED <<fnVars, resVars, svcVars, raceVars, bootVars>>

\* Service.deletePolicy: DeleteRolePolicy
deletePolicy ==
    \E ok \in IF iam.policy THEN BOOLEAN ELSE {FALSE} :
        IdentityCall("deletePolicy", "DeleteRolePolicy", ok, [iam EXCEPT !.policy = FALSE])

\* Service.removeRoleFromInstanceProfile: RemoveRoleFromInstanceProfile
removeRoleFromInstanceProfile ==
    \E ok \in IF iam.inProfile THEN BOOLEAN ELSE {FALSE} :
        IdentityCall("removeRoleFromInstanceProfile", "RemoveRoleFromInstanceProfile", ok,
                     [iam EXCEPT !.inProfile = FALSE])

\* Service.deleteRole: DeleteRole, which the provider refuses while the role has
\* a policy or is in a profile
deleteRole ==
    \E ok \in IF iam.role /\ ~iam.policy /\ ~iam.inProfile THEN BOOLEAN ELSE {FALSE} :
        IdentityCall("deleteRole", "DeleteRole", ok, [iam EXCEPT !.role = FALSE])

\* Service.deleteInstanceProfile: DeleteInstanceProfile, which the provider
\* refuses while the profile holds a role
deleteInstanceProfile ==
    \E ok \in IF iam.profile /\ ~iam.inProfile THEN BOOLEAN ELSE {FALSE} :
        IdentityCall("deleteInstanceProfile", "DeleteInstanceProfile", ok,
                     [iam EXCEPT !.profile = FALSE])

-----------------------------------------------------------------------------
(* The identity setup of a create event: role, role policy, instance profile *)

\* an identity setup that passes over every error of a creation
ToleratedAny(err) == TRUE

\* the type assertion and the switch on aerr.Code(): the error of a creation
\* that is logged and passed over
Tolerated(err) ==
    \/ err = "EntityAlreadyExists"
    \/ err \notin {"EntityAlreadyExists", "ServiceFailure", "NoSuchEntity"}

\* the provider's answer to CreateRole and CreateInstanceProfile
IamCreate(exists, fails) ==
    IF fails THEN "ServiceFailure" ELSE IF exists THEN "EntityAlreadyExists" ELSE "nil"

\* the provider's answer to a call on a role that has to exist
IamOnRole(exists, fails) ==
    IF fails THEN "ServiceFailure" ELSE IF exists THEN "nil" ELSE "NoSuchEntity"

\* which calls of one identity setup fail
SetupOutcomes ==
    [read : BOOLEAN, role : BOOLEAN, put : BOOLEAN, profile : BOOLEAN, add : BOOLEAN,
     encrypt : BOOLEAN]

\* Service.encodeTLSAssets on the account s, the calls failing as o says
encodeTLSAssets(s, o) ==
    LET called(call, err) == [call |-> call, ok |-> err = "nil", err |-> err]
        e1 == IamCreate(s.role, o.role)
        s1 == IF e1 = "nil" THEN [s EXCEPT !.role = TRUE] ELSE s
        l1 == <<called("CreateRole", e1)>>
        e2 == IamOnRole(s1.role, o.put)
        s2 == IF e2 = "nil" THEN [s1 EXCEPT !.policy = TRUE] ELSE s1
        l2 == Append(l1, called("PutRolePolicy", e2))
        e3 == IamCreate(s2.profile, o.profile)
        s3 == IF e3 = "nil" THEN [s2 EXCEPT !.profile = TRUE] ELSE s2
        l3 == Append(l2, called("CreateInstanceProfile", e3))
        e4 == IamOnRole(s3.role, o.add)
        s4 == IF e4 = "nil" THEN [s3 EXCEPT !.inProfile = TRUE] ELSE s3
        l4 == Append(l3, called("AddRoleToInstanceProfile", e4))
        sf == IF e3 = "nil" THEN s4 ELSE s3
        lf == IF e3 = "nil" THEN l4 ELSE l3
        e5 == IF o.encrypt THEN "encrypt" ELSE "nil"
    IN  IF o.read THEN [err |-> "read", s |-> s, log |-> <<>>]
        ELSE IF e1 # "nil" /\ ~Tolerated(e1) THEN [err |-> e1, s |-> s1, log |-> l1]
        ELSE IF e2 # "nil" THEN [err |-> e2, s |-> s2, log |-> l2]
        ELSE IF e3 # "nil" /\ ~Tolerated(e3) THEN [err |-> e3, s |-> s3, log |-> l3]
        ELSE IF e3 = "nil" /\ e4 # "nil" THEN [err |-> e4, s |-> s4, log |-> l4]
        ELSE [err |-> e5, s |-> sf, log |-> Append(lf, called("Encrypt", e5))]

\* a create event reached encodeTLSAssets: the identity setup runs on what the
\* events before it left in the account
IdentitySetup ==
    /\ iam.pc \in {"idle", "done", "set"} /\ iam.setups < MaxSetups
    /\ \E o \in SetupOutcomes :
        LET r == encodeTLSAssets([role |-> iam.role, policy |-> iam.policy,
                                  inProfile |-> iam.inProfile, profile |-> iam.profile], o)
        IN  iam' = [pc |-> "set", role |-> r.s.role, policy |-> r.s.policy,
                    inProfile |-> r.s.inProfile, profile |-> r.s.profile, log |-> <<>>,
                    events |-> iam.events, setups |-> iam.setups + 1, ret |-> r.err,
                    setupLog |-> r.log]
    /\ UNCHANGED <<fnVars, resVars, svcVars, raceVars, bootVars>>

-----------------------------------------------------------------------------
(* The pure helpers, applied to bounded inputs *)

Domains == SeqsUpTo({"x", Dot}, MaxDomainLen) \cup SvcDomains

\* reservation r holds instances with ids 10*r + i
ReservationShapes == SeqsUpTo(SeqsUpTo(EC2StateCodes, MaxPerReservation), MaxReservations)

Reservations(shape) ==
    [r \in 1..Len(shape) |->
        [i \in 1..Len(shape[r]) |-> [id |-> 10 * r + i, code |-> shape[r][i]]]]

IdleFn  == fnCall = [fn |-> "none"]

IdleRes ==
    /\ vpcs = {} /\ gateways = {} /\ zones = {}
    /\ nextId = 1
    /\ ent = [kind |-> "none"]
    /\ calls = <<>>
    /\ apiLog = <<>>
    /\ crashed = FALSE

CallAllExistingInstancesMatch ==
    /\ fnCall.fn = "none"
    /\ \E shape \in ReservationShapes :
        /\ fnCall' = [fn |-> "allExistingInstancesMatch",
                      arg |-> Reservations(shape),
                      ret |-> allExistingInstancesMatch(Reservations(shape), EC2TerminatedState)]
        /\ UNCHANGED <<resVars, svcVars, raceVars, bootVars, iamVars>>

CallHostedZoneName ==
    /\ fnCall.fn = "none"
    /\ \E domain \in Domains :
        /\ fnCall' = [fn |-> "hostedZoneName", arg |-> domain, ret |-> hostedZoneName(domain)]
        /\ UNCHANGED <<resVars, svcVars, raceVars, bootVars, iamVars>>

InitFn == IdleFn /\ IdleRes /\ IdleSvc /\ IdleRace /\ IdleBoot /\ IdleIam
NextFn == CallAllExistingInstancesMatch \/ CallHostedZoneName
SpecFn == InitFn /\ [][NextFn]_vars

-----------------------------------------------------------------------------
(* The resources and the hosted-zone helpers, run one operation after another *)

InitRes == IdleFn /\ IdleRes /\ IdleSvc /\ IdleRace /\ IdleBoot /\ IdleIam
NextRes ==
    \/ VPC_CreateIfNotExists
    \/ VPC_Delete
    \/ Gateway_CreateIfNotExists
    \/ Gateway_Delete
    \/ HostedZone_CreateIfNotExists
    \/ HostedZone_Delete
    \/ NewHostedZoneFromExisting
    \/ createHostedZone
    \/ createRecordSet
    \/ deleteRecordSet
    \/ KMS_CreateOrFail
    \/ KMS_CreateIfNotExists
    \/ KMS_Delete
SpecRes == InitRes /\ [][NextRes]_vars

-----------------------------------------------------------------------------
(* Two callers of CreateIfNotExists at a time *)

InitRace == IdleFn /\ IdleRes /\ IdleSvc /\ IdleRace /\ IdleBoot /\ IdleIam
NextRace ==
    \E c \in Callers :
        \/ RaceStart(c)
        \/ RaceVpcCheck(c)
        \/ RaceVpcStep(c)
        \/ RaceElbCreate(c)
SpecRace == InitRace /\ [][NextRace]_vars

-----------------------------------------------------------------------------
(* Service.Boot called by several goroutines *)

InitBoot == IdleFn /\ IdleRes /\ IdleSvc /\ IdleRace /\ IdleBoot /\ IdleIam
NextBoot ==
    \/ \E p \in BootCallers :
        \/ BootCall(p)
        \/ BootLock(p)
        \/ BootCreateTPR(p)
        \/ BootRunInformer(p)
    \/ InformerDelivers
SpecBoot == InitBoot /\ [][NextBoot]_vars

InitIam == IdleFn /\ IdleRes /\ IdleSvc /\ IdleRace /\ IdleBoot /\ IdleIam
NextIam ==
    \/ IdentitySetup
    \/ IdentityTeardown
    \/ deletePolicy
    \/ removeRoleFromInstanceProfile
    \/ deleteRole
    \/ deleteInstanceProfile
SpecIam == InitIam /\ [][NextIam]_vars

-----------------------------------------------------------------------------
(* The operator: the informer hands one event after another to the handlers *)

Init == IdleFn /\ IdleRes /\ IdleSvc /\ IdleRace /\ IdleBoot /\ IdleIam
Next ==
    \/ AddNamespace
    \/ AddClients
    \/ AddKeyPair
    \/ AddCertificates
    \/ AddKeyMaterial
    \/ AddEncryptedAssets
    \/ AddIdentityPolicy
    \/ AddObjectStore
    \/ AddMasterInstances
    \/ AddLoadBalancer
    \/ AddWorkerInstances
    \/ AddConsistencyCheck
    \/ AddDone
    \/ DeleteNamespace
    \/ DeleteClients
    \/ DeleteMasterInstances
    \/ DeleteWorkerInstances
    \/ DeleteMasterObject
    \/ DeleteWorkerObject
    \/ DeleteLoadBalancer
    \/ DeleteIdentityPolicy
    \/ DeleteKeyPair
    \/ DeleteDone
    \/ ProviderTerminates
Spec == Init /\ [][Next]_vars

\* The life of one cluster: Add and Delete events of the one-master cluster,
\* the provider answering every call
Calm == faults' = 0 /\ run'.cluster \in {"c1", "none"}

NextLife ==
    \/ AddEvent(MaxLifeEvents) /\ Calm
    \/ AddClients /\ Calm
    \/ AddKeyPair /\ Calm
    \/ AddCertificates /\ Calm
    \/ AddKeyMaterial /\ Calm
    \/ AddEncryptedAssets /\ Calm
    \/ AddIdentityPolicy /\ Calm
    \/ AddObjectStore /\ Calm
    \/ AddMasterInstances /\ Calm
    \/ AddLoadBalancer /\ Calm
    \/ AddWorkerInstances /\ Calm
    \/ AddConsistencyCheck /\ Calm
    \/ AddDone /\ Calm
    \/ DeleteEvent(MaxLifeEvents) /\ Calm
    \/ DeleteClients /\ Calm
    \/ DeleteMasterInstances /\ Calm
    \/ DeleteWorkerInstances /\ Calm
    \/ DeleteMasterObject /\ Calm
    \/ DeleteWorkerObject /\ Calm
    \/ DeleteLoadBalancer /\ Calm
    \/ DeleteIdentityPolicy /\ Calm
    \/ DeleteKeyPair /\ Calm
    \/ DeleteDone /\ Calm
    \/ ProviderTerminates /\ Calm
SpecLife == Init /\ [][NextLife]_vars


-----------------------------------------------------------------------------
(* Claims *)

\* the operations run so far on the entity of that kind and name
OpsOn(kind, name) == SelectSeq(calls, LAMBDA c : c.kind = kind /\ c.name = name)

\* the provider's resources that carry that name
Holding(kind, name) ==
    IF kind = "vpc" THEN {x.id : x \in VpcsTagged(name)}
    ELSE IF kind = "gateway" THEN {x.id : x \in GatewaysTagged(name)}
    ELSE {z.id : z \in {y \in zones : y.name = FQDN(name)}}

NamesOf(kind) ==
    IF kind = "vpc" THEN VpcNames ELSE IF kind = "gateway" THEN GatewayNames ELSE ZoneNames

IsCreateIfNotExists(c) == c.op \in {"CreateIfNotExists", "createHostedZone"}

\* C1: for a network, gateway or hosted zone name the provider started without, as
\* long as every operation on that name was a CreateIfNotExists that returned a nil
\* error, the first returned created = true, every later one created = false, all of
\* them resolved to one and the same provider id, and the provider holds exactly one
\* resource of that name.
C1_IdempotentCreate ==
    \A kind \in Kinds : \A name \in NamesOf(kind) :
        LET cs == OpsOn(kind, name)
        IN  (/\ Len(cs) > 0
             /\ \A i \in 1..Len(cs) : IsCreateIfNotExists(cs[i]) /\ cs[i].err = "nil")
            => /\ cs[1].created
               /\ \A i \in 2..Len(cs) : ~cs[i].created
               /\ cs[1].id # NoId
               /\ \A i \in 1..Len(cs) : cs[i].id = cs[1].id
               /\ Holding(kind, name) = {cs[1].id}

\* C1 witness: some name has had two CreateIfNotExists calls, both without error,
\* the second one reusing what the first one created
C1_Witness ==
    \E kind \in Kinds : \E name \in NamesOf(kind) :
        LET cs == OpsOn(kind, name)
        IN  /\ Len(cs) >= 2
            /\ \A i \in 1..Len(cs) : cs[i].op = "CreateIfNotExists" /\ cs[i].err = "nil"
            /\ ~cs[2].created

\* the dot-separated segments of a domain
Segments(domain) == Cardinality({i \in 1..Len(domain) : domain[i] = Dot}) + 1

\* C9: the existence check on a lookup result reports (nil, true) exactly when no
\* returned instance is in a state other than terminated (48); otherwise it reports
\* false with the id of a returned instance that is not terminated.
C9_TerminatedExcluded ==
    fnCall.fn = "allExistingInstancesMatch" =>
        LET live == {x \in UNION {{fnCall.arg[r][i] : i \in 1..Len(fnCall.arg[r])} :
                                    r \in 1..Len(fnCall.arg)} :
                        x.code # EC2TerminatedState}
        IN  /\ (fnCall.ret.match /\ fnCall.ret.id = NoId) <=> live = {}
            /\ live # {} => ~fnCall.ret.match /\ fnCall.ret.id \in {x.id : x \in live}

\* C9 witness: the lookup returned a terminated instance and then a running one, and
\* the check reported the running one as existing
C9_Witness ==
    /\ fnCall.fn = "allExistingInstancesMatch"
    /\ Len(fnCall.arg) = 2
    /\ Len(fnCall.arg[1]) = 1 /\ fnCall.arg[1][1].code = EC2TerminatedState
    /\ Len(fnCall.arg[2]) = 1 /\ fnCall.arg[2][1].code = EC2RunningState
    /\ fnCall.ret = [id |-> fnCall.arg[2][1].id, match |-> FALSE]

\* C10 (as claimed): createHostedZone and deleteRecordSet on a domain of fewer than six
\* dot-separated segments return the malformed-key error as an ordinary error: the
\* process does not crash and no provider call is issued.
C10_MalformedKeyReturned ==
    \A i \in 1..Len(calls) :
        (/\ calls[i].op \in {"createHostedZone", "deleteRecordSet"}
         /\ Segments(calls[i].domain) < 6)
        => /\ calls[i].err = "malformedCloudConfigKey"
           /\ ~crashed
           /\ i = Len(calls) => apiLog = <<>>

-----------------------------------------------------------------------------
(* Claims on the Add and Delete handlers *)

\* the invocation has returned
Ended == run.pc = "idle" /\ run.type # "none"

IsPrefix(s, t) == Len(s) <= Len(t) /\ SubSeq(t, 1, Len(s)) = s

\* the stages attempted, without the set-up of the provider clients
StagesRun ==
    LET kept == SelectSeq(trace, LAMBDA e : e.stage # "Clients")
    IN  [i \in 1..Len(kept) |-> kept[i].stage]

AllOk == \A i \in 1..Len(trace) : trace[i].ok

Attempted(stage) == \E i \in 1..Len(trace) : trace[i].stage = stage

Passed(stage) == \E i \in 1..Len(trace) : trace[i].stage = stage /\ trace[i].ok

\* the instances this invocation launched
NewInstances(role) == {m \in run.made : m.kind = "instance" /\ m.role = role}

KeptErrorStages == {"KeyMaterial", "IdentityPolicy"}

\* C2, as stated: an Add run that launched an instance and had a key-material
\* or identity-policy error always ends Inconsistent
C2_AlwaysInconsistent ==
    (/\ Ended /\ run.type = "Add"
     /\ NewInstances("master") \cup NewInstances("worker") # {}
     /\ (run.kmsKeyErr \/ run.policyErr))
    => run.outcome = "Inconsistent"

\* C2, amended: such a run never ends Success, and it ends Inconsistent exactly
\* when no stage other than key material and identity policy returned an error;
\* otherwise it returned at that stage as an ordinary failure
C2_InconsistentUnlessAborted ==
    (/\ Ended /\ run.type = "Add"
     /\ NewInstances("master") \cup NewInstances("worker") # {}
     /\ (run.kmsKeyErr \/ run.policyErr))
    => /\ run.outcome # "Success"
       /\ run.outcome = "Inconsistent" <=>
            \A i \in 1..Len(trace) :
                ~trace[i].ok => trace[i].stage \in KeptErrorStages \cup {"ConsistencyCheck"}

C2_Witness ==
    /\ Ended /\ run.type = "Add"
    /\ NewInstances("master") # {}
    /\ run.policyErr
    /\ run.outcome = "Inconsistent"

TeardownStages ==
    {"MasterInstances", "WorkerInstances", "MasterObject", "WorkerObject",
     "LoadBalancer", "IdentityPolicy", "KeyPair"}

\* C3, as stated: in a Delete run that got its provider clients, every teardown
\* stage is attempted, whichever of them failed
C3_TeardownBestEffort ==
    (Ended /\ run.type = "Delete" /\ Passed("Clients"))
    => \A stage \in TeardownStages : Attempted(stage)

AddOrder ==
    <<"Namespace", "KeyPair", "Certificates", "KeyMaterial", "EncryptedAssets",
      "IdentityPolicy", "ObjectStore", "MasterInstances", "LoadBalancer",
      "WorkerInstances", "ConsistencyCheck", "Done">>

OneMasterOneWorker(c) ==
    /\ c \in Clusters
    /\ ClusterSpec(c).masters = 1 /\ ClusterSpec(c).awsMasters = 1
    /\ ClusterSpec(c).workers = 1 /\ ClusterSpec(c).awsWorkers = 1

\* C5: an Add run for one master and one worker in which every stage succeeds
\* goes through Namespace, KeyPair, Certificates, KeyMaterial, EncryptedAssets,
\* IdentityPolicy, ObjectStore, MasterInstances, LoadBalancer, WorkerInstances,
\* ConsistencyCheck, Done in that order, each once, and ends Success
C5_StageOrder ==
    (run.type = "Add" /\ OneMasterOneWorker(run.cluster) /\ AllOk)
    => /\ IsPrefix(StagesRun, AddOrder)
       /\ Ended => (StagesRun = AddOrder /\ run.outcome = "Success")

C5_Witness ==
    /\ Ended /\ run.type = "Add" /\ OneMasterOneWorker(run.cluster) /\ AllOk
    /\ run.outcome = "Success"
    /\ NewInstances("master") # {} /\ NewInstances("worker") # {}

\* C6, as stated: when an Add run ends Success, every master it launched is
\* registered with the cluster's load balancer
C6_MastersRegistered ==
    (Ended /\ run.type = "Add" /\ run.outcome = "Success")
    => \A m \in NewInstances("master") :
           [lb |-> run.cluster, instance |-> m.id] \in prov.registered

DeleteOrder ==
    <<"Namespace", "MasterInstances", "WorkerInstances", "MasterObject", "WorkerObject",
      "LoadBalancer", "IdentityPolicy", "KeyPair", "Done">>

\* C7: a Delete run attempts its stages in the order Namespace, masters, workers,
\* master object, worker object, load balancer, identity, key pair, and reports
\* the cluster deleted only after the key-pair stage
C7_DeleteOrder ==
    run.type = "Delete" =>
        /\ IsPrefix(StagesRun, DeleteOrder)
        /\ run.outcome = "Deleted" => (StagesRun = DeleteOrder /\ Passed("KeyPair"))

C7_Witness ==
    /\ Ended /\ run.type = "Delete" /\ run.outcome = "Deleted"
    /\ \E x \in prov.instances : x.cluster = run.cluster /\ x.state = EC2ShuttingDownState

\* C8, as stated: an Add run without a provider failure that follows a
\* successful Add run for the same cluster creates nothing and ends Success
C8_RedundantAddCreatesNothing ==
    (/\ Ended /\ run.type = "Add" /\ ~run.fault
     /\ Len(runs) >= 2
     /\ runs[Len(runs) - 1] =
            [type |-> "Add", cluster |-> run.cluster, outcome |-> "Success"])
    => (run.made = {} /\ run.outcome = "Success")

-----------------------------------------------------------------------------
(* Claims on the hosted-zone helpers and the resources *)

\* what follows the k-th dot of a domain
AfterDot(domain, k) ==
    LET p == CHOOSE i \in 1..Len(domain) :
                 /\ domain[i] = Dot
                 /\ Cardinality({j \in 1..i : domain[j] = Dot}) = k
    IN  SubSeq(domain, p + 1, Len(domain))

IsLookup(c) == c.op = "NewHostedZoneFromExisting" /\ c.err # "provider"

\* the operation that created the zone a later lookup must find: a creation of
\* that name that succeeded, with no deletion of that name since
CreatedBefore(i) ==
    {j \in 1..(i - 1) :
        /\ calls[j].kind = "hostedZone" /\ calls[j].name = calls[i].name
        /\ IsCreateIfNotExists(calls[j]) /\ calls[j].created /\ calls[j].err = "nil"
        /\ \A k \in (j + 1)..(i - 1) :
               ~(calls[k].op = "Delete" /\ calls[k].kind = "hostedZone"
                 /\ calls[k].name = calls[i].name)}

\* C12: a hosted-zone lookup by name that got the provider's answer returns not-found
\* when the answer holds no zone and when the first zone's name without its trailing
\* dot is not the requested name, and returns that first zone otherwise; after a
\* successful creation of the name it returns the created zone
C12_LookupNotFound ==
    \A i \in 1..Len(calls) :
        IsLookup(calls[i]) =>
            LET c == calls[i]
                named == Len(c.resp) > 0 /\ c.resp[1].name = c.name \o <<Dot>>
            IN  /\ ~named => c.err = "notFound" /\ c.id = NoId
                /\ named => c.err = "nil" /\ c.id = c.resp[1].id
                /\ \A j \in CreatedBefore(i) : c.err = "nil" /\ c.id = calls[j].id

\* C12 witness: a zone was created and the lookup of its name returned it
C12_Witness ==
    /\ Len(calls) = 2
    /\ IsLookup(calls[2]) /\ CreatedBefore(2) = {1}
    /\ calls[2].err = "nil" /\ calls[2].id = calls[1].id

-----------------------------------------------------------------------------
(* Claims on concurrent callers *)

SameResource(c, d) ==
    /\ c # d
    /\ callers[c].kind # "none" /\ callers[c].kind = callers[d].kind
    /\ callers[c].name = callers[d].name

\* C13, as stated: whatever the interleaving of two callers of CreateIfNotExists on
\* one name, the provider holds at most one resource of that name, at most one
\* caller reports created = true, and losing the race is not reported as an error
C13_AtMostOneCreation ==
    /\ \A name \in VpcNames : Cardinality(VpcsTagged(name)) <= 1
    /\ \A c, d \in Callers :
            SameResource(c, d) =>
                /\ ~(callers[c].created /\ callers[d].created)
                /\ callers[c].err \notin {"alreadyExists", "ELBAlreadyExists"}

-----------------------------------------------------------------------------
(* Claims on the state the handlers share *)

\* C14, as stated: the provider clients a handler builds for an event of cluster C
\* have the region of C's own specification, whatever events came before
C14_OwnRegion ==
    (run.type # "none" /\ Attempted("Clients"))
    => run.region = ClusterSpec(run.cluster).region

-----------------------------------------------------------------------------
(* Claims on Service.Boot *)

\* C15: however many goroutines call Boot, createTPR runs at most once, the informer
\* is started at most once, and no handler runs before the registration returned
C15_BootOnce ==
    /\ boot.tprRuns <= 1
    /\ boot.informers <= 1
    /\ boot.handled > 0 => boot.registered

\* C15 witness: one caller runs the informer, which has delivered an event, while
\* the other callers wait in bootOnce.Do
C15_Witness ==
    /\ boot.handled > 0
    /\ \E p \in BootCallers :
        /\ boot.pc[p] = "watching"
        /\ \A q \in BootCallers \ {p} : boot.pc[q] = "doSlow"
-----------------------------------------------------------------------------
(* C16: ids and ARNs of failed creations *)

IsCreation(c) ==
    /\ c.kind \in {"vpc", "gateway", "hostedZone", "kmsKey"}
    /\ c.op \in {"CreateOrFail", "CreateIfNotExists", "createHostedZone"}

\* the id or ARN the entity of the last operation holds
HeldId == IF ent.kind = "kmsKey" THEN ent.arn ELSE ent.id

\* what the entity held when the operation began: entities of networks, gateways
\* and zones are new ones, a key entity may come from an earlier operation
HeldBefore(c) == IF c.kind = "kmsKey" THEN c.before ELSE NoId

\* C16: a CreateOrFail or CreateIfNotExists that returned an error leaves the
\* id/ARN of its entity as it was, so empty on an entity no earlier creation or
\* lookup succeeded on; the id/ARN becomes non-empty only in a call that
\* returned no error.
C16_IdOnlyOnSuccess ==
    (Len(calls) > 0 /\ IsCreation(calls[Len(calls)]))
    => LET c == calls[Len(calls)]
       IN  /\ c.err # "nil" => HeldId = HeldBefore(c)
           /\ (c.err # "nil" /\ HeldBefore(c) = NoId) => HeldId = NoId
           /\ HeldId # HeldBefore(c) => c.err = "nil"

\* the alias creation failed after the key was created: the ARN is still empty
C16_Witness ==
    /\ Len(calls) > 0
    /\ calls[Len(calls)].kind = "kmsKey"
    /\ calls[Len(calls)].op = "CreateOrFail"
    /\ calls[Len(calls)].err # "nil"
    /\ apiLog = <<"CreateKey", "CreateAlias">>
    /\ prov.kmsKeys # {}
    /\ ent.arn = NoId
-----------------------------------------------------------------------------
(* C17: stages that take the key's ARN *)

\* the key-material stage of this Add run ended and left the ARN empty
EmptyArn == run.type = "Add" /\ Attempted("KeyMaterial") /\ run.kmsArn = NoId

\* C17: when the key-material stage leaves the ARN empty, the encrypt-assets
\* and the identity-policy stage are not invoked with it, and the run is
\* aborted: it ends as failed right after the key-material stage.
C17_EmptyArnNotConsumed ==
    EmptyArn =>
        /\ ~Attempted("EncryptedAssets")
        /\ ~Attempted("IdentityPolicy")
        /\ run.pc = "idle" /\ run.outcome = "Failed"
-----------------------------------------------------------------------------
(* C18: key material is never reused *)

\* this step is a KMSKey.CreateIfNotExists
KeyReuseStep ==
    /\ Len(calls') = Len(calls) + 1
    /\ calls'[Len(calls')].kind = "kmsKey"
    /\ calls'[Len(calls')].op = "CreateIfNotExists"

\* C18: CreateIfNotExists on key material returns (false, the fixed "cannot be
\* reused" error), issues no provider call, and leaves the provider and the
\* entity's ARN as they were, whatever the state.
C18_KeyNeverReused ==
    [][KeyReuseStep =>
          LET c == calls'[Len(calls')]
          IN  /\ ~c.created
              /\ c.err = "notReusable"
              /\ apiLog' = <<>>
              /\ prov' = prov
              /\ ent'.arn = c.before
              /\ c.id = c.before]_vars

\* CreateIfNotExists ran on a key entity that holds an ARN and has its alias
C18_Witness ==
    /\ Len(calls) > 0
    /\ calls[Len(calls)].kind = "kmsKey"
    /\ calls[Len(calls)].op = "CreateIfNotExists"
    /\ calls[Len(calls)].before # NoId
    /\ ent.arn \in prov.kmsKeys
    /\ fullAlias(ent) \in prov.aliases
-----------------------------------------------------------------------------
(* C19: Delete of a resource that is not there *)

\* the provider's resources of that kind a name matches
Matching(kind, name) ==
    IF kind = "vpc" THEN VpcsTagged(name)
    ELSE IF kind = "gateway" THEN GatewaysTagged(name)
    ELSE {z \in zones : TrimRight(z.name, Dot) = name}

\* this step is a Delete of a network, a gateway or a hosted zone
DeleteStep ==
    /\ Len(calls') = Len(calls) + 1
    /\ calls'[Len(calls')].op = "Delete"
    /\ calls'[Len(calls')].kind \in {"vpc", "gateway", "hostedZone"}

DeleteCalls == {"DeleteVpc", "DeleteInternetGateway", "DeleteHostedZone"}

\* C19: Delete on a network, gateway or hosted zone whose name matches no
\* provider resource returns an error, the not-found one whenever the lookup
\* was answered, issues no provider delete call and leaves the provider's
\* resources as they were.
C19_DeleteOfAbsent ==
    [][(DeleteStep /\ Matching(calls'[Len(calls')].kind, calls'[Len(calls')].name) = {})
        => LET c == calls'[Len(calls')]
           IN  /\ c.err \in {"notFound", "provider"}
               /\ \A i \in 1..Len(apiLog') : apiLog'[i] \notin DeleteCalls
               /\ Len(apiLog') = 1
               /\ <<vpcs, gateways, zones>>' = <<vpcs, gateways, zones>>]_vars

\* a Delete found nothing under its name while the provider holds a zone of
\* another name
C19_Witness ==
    /\ Len(calls) > 0
    /\ calls[Len(calls)].op = "Delete"
    /\ calls[Len(calls)].kind = "hostedZone"
    /\ calls[Len(calls)].err = "notFound"
    /\ zones # {}
    /\ Matching("hostedZone", calls[Len(calls)].name) = {}
-----------------------------------------------------------------------------
(* C20: nothing is undone or retried on an inconsistent cluster *)

ProviderSets ==
    {"namespaces", "keyPairs", "kmsKeys", "aliases", "policies", "buckets", "objects",
     "instances", "elbs", "registered"}

\* every resource of p is in q as it was
Grows(p, q) == \A f \in ProviderSets : p[f] \subseteq q[f]

InconsistentEnd == Ended /\ run.type = "Add" /\ run.outcome = "Inconsistent"

NoStageTwice ==
    \A i, j \in 1..Len(trace) : trace[i].stage = trace[j].stage => i = j

\* what this invocation created is at the provider
StillThere(m) ==
    IF m.kind = "instance" THEN \E x \in prov.instances :
                                   x.id = m.id /\ x.state = EC2RunningState
    ELSE IF m.kind = "kmsKey" THEN m.id \in prov.kmsKeys
    ELSE IF m.kind = "kmsAlias" THEN fullAlias([name |-> ""]) \in prov.aliases
    ELSE IF m.kind = "object" THEN bucketObjectName(run.cluster, m.role) \in prov.objects
    ELSE IF m.kind = "elb" THEN run.cluster \in prov.elbs
    ELSE IF m.kind = "policy" THEN run.cluster \in prov.policies
    ELSE IF m.kind = "bucket" THEN run.cluster \in prov.buckets
    ELSE IF m.kind = "keyPair" THEN run.cluster \in prov.keyPairs
    ELSE TRUE

\* C20: in a create run that ends Inconsistent no stage removes a provider
\* resource and no stage runs twice; the consistency check changes nothing at
\* the provider; once the run is Inconsistent the handler runs no further
\* stage, and what the run's stages created is still at the provider.
C20_NothingUndone ==
    /\ [](InconsistentEnd =>
            /\ NoStageTwice
            /\ trace[Len(trace)].stage = "ConsistencyCheck"
            /\ \A m \in run.made : StillThere(m))
    /\ [][/\ (trace' # trace /\ run'.type = "Add") => Grows(prov, prov')
          /\ (run.type = "Add" /\ run.pc = "ConsistencyCheck") => prov' = prov
          /\ (run.outcome = "Inconsistent" /\ run'.outcome = "Inconsistent")
                => trace' = trace /\ run' = run]_vars

\* the run launched a worker beside resources of an earlier run, and ended
\* Inconsistent
C20_Witness ==
    /\ InconsistentEnd
    /\ NewInstances("worker") # {}
    /\ run.kmsKeyErr
    /\ Len(runs) = 2
-----------------------------------------------------------------------------
(* C21: the launch of an instance under a new instance profile *)

MachineStages == {"MasterInstances", "WorkerInstances"}

\* an instance this invocation launched that was left without its tags
UntaggedLaunch ==
    \E m \in run.made :
        /\ m.kind = "instance"
        /\ \E x \in prov.instances : x.id = m.id /\ x.name = <<>>

\* the last stage is a machine stage that failed because RunInstances was rejected
LaunchRejected ==
    /\ run.type = "Add" /\ Len(trace) > 0
    /\ trace[Len(trace)].stage \in MachineStages
    /\ ~trace[Len(trace)].ok
    /\ run.attempts > 0
    /\ ~UntaggedLaunch

\* C21: a launch the provider rejects is retried; the machine stage fails on
\* it only once the bound of runInstancesRetries attempts is reached, never
\* after a single attempt.
C21_LaunchRetried ==
    LaunchRejected => run.attempts = runInstancesRetries
-----------------------------------------------------------------------------
(* C22: the load balancer that is already there *)

\* this step is the load-balancer stage of an Add run
LoadBalancerStep ==
    /\ run.type = "Add" /\ run.pc = "LoadBalancer"
    /\ Len(trace') = Len(trace) + 1

-----------------------------------------------------------------------------
(* C23: the order of the identity teardown *)

IdentityCalls ==
    <<"DeleteRolePolicy", "RemoveRoleFromInstanceProfile", "DeleteRole",
      "DeleteInstanceProfile">>

\* C23: the identity teardown issues role-policy delete, removal of the role
\* from the instance profile, role delete, instance-profile delete, in that
\* order; the role delete is issued only after the other two were attempted.
C23_IdentityOrder ==
    /\ Len(iam.log) <= Len(IdentityCalls)
    /\ \A i \in 1..Len(iam.log) : iam.log[i].call = IdentityCalls[i]
    /\ \A i \in 1..Len(iam.log) :
          iam.log[i].call = "DeleteRole" =>
              /\ \E j \in 1..(i - 1) : iam.log[j].call = "DeleteRolePolicy"
              /\ \E j \in 1..(i - 1) : iam.log[j].call = "RemoveRoleFromInstanceProfile"

\* a role with a policy and in a profile was torn down, the role delete accepted
C23_Witness ==
    /\ iam.pc = "done"
    /\ Len(iam.log) = 4
    /\ \A i \in 1..4 : iam.log[i].ok
    /\ ~iam.role /\ ~iam.profile
-----------------------------------------------------------------------------
(* C24: the deletion of key material *)

\* this step is a KMSKey.Delete
KeyDeleteStep ==
    /\ Len(calls') = Len(calls) + 1
    /\ calls'[Len(calls')].kind = "kmsKey"
    /\ calls'[Len(calls')].op = "Delete"

Scheduled(log) == \E i \in 1..Len(log) : log[i] = "ScheduleKeyDeletion"

\* C24: key-material Delete resolves the key by its alias, removes the alias,
\* then schedules the destruction of that key with a pending window of 7
\* days; the key itself is never deleted by the call, and the schedule call
\* is issued only after the alias was removed.
C24_KeyDeletionScheduled ==
    [][KeyDeleteStep =>
          LET c     == calls'[Len(calls')]
              alias == <<"alias/", c.name>>
              keys  == {t.key : t \in {u \in prov.target : u.alias = alias}}
          IN  /\ apiLog'[1] = "DescribeKey"
              /\ prov'.kmsKeys = prov.kmsKeys
              /\ Scheduled(apiLog') =>
                    /\ apiLog' = <<"DescribeKey", "DeleteAlias", "ScheduleKeyDeletion">>
                    /\ alias \in prov.aliases /\ alias \notin prov'.aliases
              /\ \A d \in prov'.pending \ prov.pending : d.days = 7 /\ d.key \in keys
              /\ c.err = "nil" =>
                    /\ Scheduled(apiLog')
                    /\ \E d \in prov'.pending : d.key \in keys]_vars

\* a key created with its alias was deleted: the alias is gone, the key is
\* still there and pending deletion
C24_Witness ==
    /\ Len(calls) = 2
    /\ calls[1].kind = "kmsKey" /\ calls[1].op = "CreateOrFail" /\ calls[1].err = "nil"
    /\ calls[2].kind = "kmsKey" /\ calls[2].op = "Delete" /\ calls[2].err = "nil"
    /\ prov.aliases = {}
    /\ \E d \in prov.pending : d.key \in prov.kmsKeys /\ d.days = keyPendingWindowInDays
-----------------------------------------------------------------------------
(* C25: record sets and their hosted zone *)

\* this step is a record-set operation of the service
RecordSetStep ==
    /\ Len(calls') = Len(calls) + 1
    /\ calls'[Len(calls')].op \in {"createRecordSet", "deleteRecordSet"}

Changes(log) == \E i \in 1..Len(log) : log[i] = "ChangeResourceRecordSets"

-----------------------------------------------------------------------------
(* C26: one boot-configuration object per machine role *)

\* the objects of a cluster's bucket uploaded for a machine role
ObjectsOf(cluster, prefix) ==
    {o \in prov.objects : o[1] = cluster /\ o[2] = prefix}

\* C26: whatever create runs took place, with one or several machines of a
\* role, the cluster's bucket holds at most one boot-configuration object per
\* machine role.
C26_OneObjectPerRole ==
    \A c \in Clusters, prefix \in {"master", "worker"} :
        Cardinality(ObjectsOf(c, prefix)) <= 1

\* both masters of the two-master cluster were launched, each after its upload,
\* and the bucket holds the one object of the role
C26_Witness ==
    /\ run.type = "Add" /\ run.cluster = "c2"
    /\ Passed("MasterInstances")
    /\ Cardinality(NewInstances("master")) = 2
    /\ Cardinality(ObjectsOf("c2", "master")) = 1
-----------------------------------------------------------------------------
(* C27: a creation that failed half-way, and the next one *)

\* everything the provider holds of that kind, tagged or not
AllOf(kind) == IF kind = "vpc" THEN vpcs ELSE gateways

\* every operation so far was a CreateIfNotExists of this one name
OnlyCreationsOf(kind, name) ==
    /\ Len(calls) > 0
    /\ \A i \in 1..Len(calls) :
          /\ calls[i].kind = kind
          /\ calls[i].op = "CreateIfNotExists"
          /\ calls[i].name = name

\* C27: when every operation so far was a CreateIfNotExists of one network or
\* gateway name, some of which may have failed after the creation call, the
\* provider holds at most one resource of that kind: what a failed attempt
\* created is found and reused by the next one.
C27_FailedCreationReused ==
    \A kind \in {"vpc", "gateway"} :
        \A name \in NamesOf(kind) :
            OnlyCreationsOf(kind, name) => Cardinality(AllOf(kind)) <= 1
-----------------------------------------------------------------------------
(* C28: the name tag comes after the wait and the attachment *)

\* C28: in every state a network that carries a name tag has reached the
\* available state, and a gateway that carries a name tag is attached to its
\* network.
C28_TaggedIsUsable ==
    /\ \A x \in vpcs : x.name # <<>> => x.available
    /\ \A g \in gateways : g.name # <<>> => g.attached

\* a creation failed at the wait and the next one went through: the provider
\* holds a network that is not available, without a name tag, beside the tagged
\* one
C28_Witness ==
    /\ \E x \in vpcs : ~x.available /\ x.name = <<>>
    /\ \E x \in vpcs : x.available /\ x.name # <<>>
-----------------------------------------------------------------------------
(* C29: the DNS attributes of a network *)

\* C29: after a CreateIfNotExists on a network that returned a nil error,
\* whether it created the network or found it by name, the network of that
\* name has DNS hostnames and DNS support enabled.
C29_DnsEnabled ==
    (/\ Len(calls) > 0
     /\ calls[Len(calls)].kind = "vpc"
     /\ calls[Len(calls)].op = "CreateIfNotExists"
     /\ calls[Len(calls)].err = "nil")
    => \A x \in VpcsTagged(calls[Len(calls)].name) : x.dnsHostnames /\ x.dnsSupport
-----------------------------------------------------------------------------
(* C30: a lookup that fails is not a resource that is missing *)

\* this step is a CreateIfNotExists of a network, a gateway or a hosted zone
CreationStep ==
    /\ Len(calls') = Len(calls) + 1
    /\ calls'[Len(calls')].kind \in {"vpc", "gateway", "hostedZone"}
    /\ IsCreateIfNotExists(calls'[Len(calls')])

LookupCalls == {"DescribeVpcs", "DescribeInternetGateways", "ListHostedZonesByName"}
CreationCalls == {"CreateVpc", "CreateInternetGateway", "CreateHostedZone"}

Creates(log) == \E i \in 1..Len(log) : log[i] \in CreationCalls

\* C30: CreateIfNotExists begins with the lookup; when the lookup fails with
\* an error other than not-found the call returns (false, that error) with no
\* creation call and the provider unchanged; a creation call is issued only
\* when the lookup answered that no resource of the name exists.
C30_LookupErrorStops ==
    [][CreationStep =>
          LET c == calls'[Len(calls')]
          IN  /\ apiLog'[1] \in LookupCalls
              /\ Creates(apiLog') => Matching(c.kind, c.name) = {}
              /\ (c.err # "nil" /\ ~Creates(apiLog')) =>
                    /\ c.err = "provider" /\ ~c.created
                    /\ Len(apiLog') = 1
                    /\ <<vpcs, gateways, zones>>' = <<vpcs, gateways, zones>>
              /\ Matching(c.kind, c.name) = {} =>
                    (Creates(apiLog') \/ c.err = "provider")]_vars

\* the lookup of a network failed while the provider held the network: the call
\* returned the error and created nothing
C30_Witness ==
    /\ Len(calls) > 0
    /\ calls[Len(calls)].kind = "vpc"
    /\ calls[Len(calls)].op = "CreateIfNotExists"
    /\ calls[Len(calls)].err = "provider"
    /\ apiLog = <<"DescribeVpcs">>
    /\ Cardinality(vpcs) = 1
    /\ VpcsTagged(calls[Len(calls)].name) # {}
-----------------------------------------------------------------------------
(* C31: anyCreated when a later machine fails *)

\* the instances of a role this invocation launched and tagged
CreatedInstances(role) ==
    {m \in NewInstances(role) :
        \E x \in prov.instances : x.id = m.id /\ x.name # <<>>}

\* C31: once the machine stage of a role has returned, anyCreated of that role
\* is true whenever the invocation created at least one machine of the role,
\* also when a later machine of the role failed.
C31_AnyCreatedCounts ==
    run.type = "Add" =>
        /\ (Attempted("MasterInstances") /\ CreatedInstances("master") # {})
              => run.anyMastersCreated
        /\ (Attempted("WorkerInstances") /\ CreatedInstances("worker") # {})
              => run.anyWorkersCreated
-----------------------------------------------------------------------------
(* C32: what "processed" stands for *)

\* C32: an Add run ends as Success only when every stage it ran, the
\* key-material and the identity-policy stage included, returned without error.
C32_SuccessMeansAllOk ==
    (Ended /\ run.type = "Add" /\ run.outcome = "Success")
    => (AllOk /\ ~run.kmsKeyErr /\ ~run.policyErr)
-----------------------------------------------------------------------------
(* C33: no load balancer and no worker without valid master ids *)

\* C33: the load-balancer and the worker stage of an Add run are entered only
\* when the master stage produced a non-empty list of ids none of which is
\* empty; otherwise the run stops at the master stage, before a load balancer
\* or a worker is created.
C33_MastersBeforeTheRest ==
    (run.type = "Add" /\ Attempted("MasterInstances"))
    => IF run.masterIDs # <<>> /\ \A i \in 1..Len(run.masterIDs) : run.masterIDs[i] # NoId
       THEN Len(run.masterIDs) = ClusterSpec(run.cluster).masters
       ELSE /\ ~Attempted("LoadBalancer") /\ ~Attempted("WorkerInstances")
            /\ Ended /\ run.outcome = "Failed"
            /\ trace[Len(trace)].stage = "MasterInstances"
            /\ Made("elb", "none", NoId) \notin run.made
            /\ NewInstances("worker") = {}

\* the cluster that declares no master stopped at the master stage, no
\* provider call having failed
C33_Witness ==
    /\ run.type = "Add" /\ run.cluster = "c3"
    /\ Attempted("MasterInstances")
    /\ run.masterIDs = <<>>
    /\ ~run.fault
    /\ Ended /\ run.outcome = "Failed"
    /\ run.cluster \notin prov.elbs

-----------------------------------------------------------------------------
(* C34 *)

\* the instances that carry the name of the first machine of the role
Named(p, role) ==
    {x \in p.instances : /\ x.name = instanceName(run.cluster, role, 0)
                         /\ x.cluster = run.cluster}

\* the machine stage of the role ran without error on a cluster all of whose
\* instances of that name are terminated
StageOverTerminated(role, stage) ==
    /\ InStage("Add", stage)
    /\ trace' = Append(trace, [stage |-> stage, ok |-> TRUE])
    /\ Named(prov, role) # {}
    /\ \A x \in Named(prov, role) : x.state = EC2TerminatedState

\* a running instance of that name with an id no earlier instance had
Relaunched(role) ==
    \E y \in Named(prov', role) :
        /\ y.state = EC2RunningState
        /\ \A x \in prov.instances : x.id # y.id

\* C34: an Add that finds the instances of a machine terminated launches a new
\* instance under the same name and reports it created; it never hands back
\* the id of a terminated instance
C34_TerminatedRelaunched ==
    [][/\ StageOverTerminated("master", "MasterInstances")
          => /\ Relaunched("master")
             /\ run'.anyMastersCreated
             /\ \A x \in Named(prov, "master") :
                    \A i \in 1..Len(run'.masterIDs) : run'.masterIDs[i] # x.id
       /\ StageOverTerminated("worker", "WorkerInstances")
          => /\ Relaunched("worker")
             /\ run'.anyWorkersCreated]_vars

\* the cluster was created, deleted and its instances terminated; the next Add
\* passed the master stage with a new master beside the terminated one
C34_Witness ==
    /\ Len(runs) = 2
    /\ runs[1] = [type |-> "Add", cluster |-> "c1", outcome |-> "Success"]
    /\ runs[2].type = "Delete" /\ runs[2].cluster = "c1"
    /\ run.type = "Add" /\ run.cluster = "c1" /\ Passed("MasterInstances")
    /\ run.anyMastersCreated
    /\ \E x, y \in Named(prov, "master") :
        x.state = EC2TerminatedState /\ y.state = EC2RunningState

-----------------------------------------------------------------------------
(* C35 *)

\* the stages of the Delete handler that call the provider
DeleteProviderStages ==
    {"MasterInstances", "WorkerInstances", "MasterObject", "WorkerObject",
     "LoadBalancer", "IdentityPolicy", "KeyPair"}

\* C35, as stated: every provider stage of a Delete run for cluster C is issued
\* against the region of C, also when the event before it was an Add for a
\* cluster of another region
C35_DeleteStagesInOwnRegion ==
    \A stage \in DeleteProviderStages :
        (run.type = "Delete" /\ run.pc = stage)
        => run.region = ClusterSpec(run.cluster).region

-----------------------------------------------------------------------------
(* C36, C37: the identity setup *)

\* the answer the identity setup got to that call, "none" when it was not made
Answer(call) ==
    IF \E i \in 1..Len(iam.setupLog) : iam.setupLog[i].call = call
    THEN iam.setupLog[CHOOSE i \in 1..Len(iam.setupLog) : iam.setupLog[i].call = call].err
    ELSE "none"

SetupReturned == iam.pc = "set"

\* C36, as stated: an identity setup that returns success leaves the role in
\* the instance profile, also when the profile was there before it ran
C36_ProfileHoldsRole ==
    (SetupReturned /\ iam.ret = "nil") => iam.inProfile

\* the errors of a creation that are passed over
Swallowed == {"EntityAlreadyExists"}

\* C37: an error of CreateRole or CreateInstanceProfile other than 'already
\* exists' is returned and is the last call of the setup; 'already exists' is
\* passed over and the calls after it are made
C37_OnlyExistsSwallowed ==
    SetupReturned =>
        /\ Answer("CreateRole") \notin {"none", "nil"} \cup Swallowed
            => /\ iam.ret = Answer("CreateRole")
               /\ Len(iam.setupLog) = 1
        /\ Answer("CreateInstanceProfile") \notin {"none", "nil"} \cup Swallowed
            => /\ iam.ret = Answer("CreateInstanceProfile")
               /\ iam.setupLog[Len(iam.setupLog)].call = "CreateInstanceProfile"
               /\ Answer("AddRoleToInstanceProfile") = "none"
               /\ Answer("Encrypt") = "none"
        /\ Answer("CreateRole") \in Swallowed => Answer("PutRolePolicy") # "none"
        /\ Answer("CreateInstanceProfile") \in Swallowed => Answer("Encrypt") # "none"

\* the role was there already and was reused; the creation of the instance
\* profile failed and the setup returned that error without a further call
C37_Witness ==
    /\ SetupReturned
    /\ iam.ret = "ServiceFailure"
    /\ Answer("CreateRole") = "EntityAlreadyExists"
    /\ Answer("CreateInstanceProfile") = "ServiceFailure"
    /\ Len(iam.setupLog) = 3

-----------------------------------------------------------------------------
(* C38 *)

\* the two declarations of the role's machines differ in number
Mismatched(cluster, role) ==
    IF role = "master"
    THEN ClusterSpec(cluster).masters # ClusterSpec(cluster).awsMasters
    ELSE ClusterSpec(cluster).workers # ClusterSpec(cluster).awsWorkers

\* the machine stage of the role runs on a cluster whose declarations differ
MismatchedStage(role, stage) ==
    InStage("Add", stage) /\ run'.pc # stage /\ Mismatched(run.cluster, role)

\* nothing was uploaded and nothing launched
NothingProvisioned ==
    /\ prov'.objects = prov.objects
    /\ prov'.instances = prov.instances
    /\ prov'.next = prov.next
    /\ run'.made = run.made

\* C38: when the machine declarations of a role and its provider-specific
\* declarations differ in number, runMachines returns an error, anyCreated
\* false and no ids, and neither uploads nor launches anything
C38_MismatchStopsRole ==
    [][/\ MismatchedStage("master", "MasterInstances")
          => /\ trace'[Len(trace')] = [stage |-> "MasterInstances", ok |-> FALSE]
             /\ run'.outcome = "Failed"
             /\ ~run'.anyMastersCreated /\ run'.masterIDs = <<>>
             /\ NothingProvisioned
       /\ MismatchedStage("worker", "WorkerInstances")
          => /\ trace'[Len(trace')] = [stage |-> "WorkerInstances", ok |-> FALSE]
             /\ run'.outcome = "Failed"
             /\ ~run'.anyWorkersCreated
             /\ NothingProvisioned]_vars

\* the cluster with one worker declared and two provider-specific worker
\* declarations stopped at the worker stage, no provider call having failed
C38_Witness ==
    /\ run.type = "Add" /\ run.cluster = "c2" /\ Mismatched("c2", "worker")
    /\ Attempted("WorkerInstances") /\ ~Passed("WorkerInstances")
    /\ ~run.fault
    /\ Ended /\ run.outcome = "Failed"
    /\ ~run.anyWorkersCreated
    /\ \A x \in prov.instances : x.name # instanceName("c2", "worker", 0)

====
